---- MODULE Spec2Model ----
(***************************************************************************)
(* ProductionCalculationEngine (src/unnamed/part_004): the multi-sheet     *)
(* formula calculation engine.  The state is the engine object's fields    *)
(* (excelData, calculatedCells, processing) and the position of the        *)
(* current execute() call.                                                 *)
(*                                                                         *)
(* Encodings.  A cell address such as A1 is the pair <<"A", 1>>.  A Cell   *)
(* Store key is the tuple <<sheet, col, row>> for the text "sheet!A1" and  *)
(* <<col, row>> for the bare text "A1".  A formula text is a sequence of   *)
(* lexemes; a JavaScript value is a tagged record.  Finite numbers are     *)
(* sign-magnitude rationals (so that -0 exists, as in IEEE arithmetic).    *)
(***************************************************************************)
EXTENDS Integers, Sequences, FiniteSets, TLC

(***************************************************************************)
(* JavaScript values                                                       *)
(***************************************************************************)
RECURSIVE Gcd(_, _)
Gcd(a, b) == IF b = 0 THEN a ELSE Gcd(b, a % b)

Abs(i) == IF i < 0 THEN 0 - i ELSE i

\* A finite number sign * n / d, in lowest terms.
Num(neg, n, d) ==
    LET g == Gcd(n, d)
    IN  IF n = 0 THEN [k |-> "num", neg |-> neg, n |-> 0, d |-> 1]
        ELSE [k |-> "num", neg |-> neg, n |-> n \div g, d |-> d \div g]

N(i) == Num(i < 0, Abs(i), 1)
NaN == [k |-> "nan"]
Infinity(neg) == [k |-> "inf", neg |-> neg]
Str(chunks) == [k |-> "str", s |-> chunks]
Bool(b) == [k |-> "bool", b |-> b]
Undefined == [k |-> "undefined"]
Null == [k |-> "null"]

\* A piece of a string's text: literal text without a cell-address-shaped
\* word, or the decimal text of a number.
Txt(t) == [c |-> "txt", t |-> t]
NumTxt(v) == [c |-> "num", v |-> v]

\* typeof v === 'number'
TypeofNumber(v) == v.k \in {"num", "nan", "inf"}
TypeofString(v) == v.k = "str"
IsZero(v) == v.k = "num" /\ v.n = 0
\* Number.isFinite(v)
IsFinite(v) == v.k = "num"

\* String(v) for a number: -0 prints as "0".
NumberText(v) ==
    IF IsZero(v) THEN <<NumTxt(N(0))>> ELSE <<NumTxt(v)>>

\* ToNumber
ToNumber(v) ==
    CASE v.k \in {"num", "nan", "inf"} -> v
      [] v.k = "bool" -> IF v.b THEN N(1) ELSE N(0)
      [] v.k = "null" -> N(0)
      [] v.k = "str" ->
            IF v.s = <<>> THEN N(0)
            ELSE IF Len(v.s) = 1 /\ v.s[1].c = "num" THEN v.s[1].v
            ELSE NaN
      [] OTHER -> NaN

Negate(v) ==
    CASE v.k = "num" -> [v EXCEPT !.neg = ~v.neg]
      [] v.k = "inf" -> [v EXCEPT !.neg = ~v.neg]
      [] OTHER -> v

\* x + y on numbers (IEEE: NaN absorbs, Infinity - Infinity = NaN,
\* a zero sum is -0 only when both operands are -0).
NumAdd(x, y) ==
    CASE x.k = "nan" \/ y.k = "nan" -> NaN
      [] x.k = "inf" /\ y.k = "inf" -> IF x.neg = y.neg THEN x ELSE NaN
      [] x.k = "inf" -> x
      [] y.k = "inf" -> y
      [] OTHER ->
            LET sx == IF x.neg THEN 0 - x.n ELSE x.n
                sy == IF y.neg THEN 0 - y.n ELSE y.n
                top == sx * y.d + sy * x.d
            IN  IF top = 0 THEN Num(x.neg /\ y.neg, 0, 1)
                ELSE Num(top < 0, Abs(top), x.d * y.d)

NumSub(x, y) == NumAdd(x, Negate(y))

NumMul(x, y) ==
    CASE x.k = "nan" \/ y.k = "nan" -> NaN
      [] x.k = "inf" /\ y.k = "inf" -> Infinity(x.neg # y.neg)
      [] x.k = "inf" -> IF IsZero(y) THEN NaN ELSE Infinity(x.neg # y.neg)
      [] y.k = "inf" -> IF IsZero(x) THEN NaN ELSE Infinity(x.neg # y.neg)
      [] OTHER -> Num(x.neg # y.neg, x.n * y.n, x.d * y.d)

\* x / y: division by zero does not throw in JavaScript.
NumDiv(x, y) ==
    CASE x.k = "nan" \/ y.k = "nan" -> NaN
      [] x.k = "inf" /\ y.k = "inf" -> NaN
      [] x.k = "inf" -> Infinity(x.neg # y.neg)
      [] y.k = "inf" -> Num(x.neg # y.neg, 0, 1)
      [] IsZero(y) -> IF IsZero(x) THEN NaN ELSE Infinity(x.neg # y.neg)
      [] OTHER -> Num(x.neg # y.neg, x.n * y.d, x.d * y.n)

\* ToString, as a sequence of text pieces.
ToText(v) ==
    CASE v.k = "str" -> v.s
      [] v.k = "num" -> NumberText(v)
      [] v.k = "nan" -> <<Txt("NaN")>>
      [] v.k = "inf" -> IF v.neg THEN <<Txt("-Infinity")>> ELSE <<Txt("Infinity")>>
      [] v.k = "bool" -> IF v.b THEN <<Txt("true")>> ELSE <<Txt("false")>>
      [] v.k = "undefined" -> <<Txt("undefined")>>
      [] v.k = "null" -> <<Txt("null")>>

\* An array of values (the range pass writes one as a literal).
Arr(items) == [k |-> "arr", items |-> items]

\* Array.prototype.join(","): null and undefined elements give no text.
RECURSIVE JoinText(_)
JoinText(items) ==
    IF items = <<>> THEN <<>>
    ELSE (IF Head(items).k \in {"null", "undefined"} THEN <<>> ELSE ToText(Head(items)))
         \o (IF Len(items) > 1 THEN <<Txt(",")>> \o JoinText(Tail(items)) ELSE <<>>)

\* ToPrimitive: an array becomes its text.
ToPrimitive(v) == IF v.k = "arr" THEN Str(JoinText(v.items)) ELSE v

\* ToNumber of any operand.
ToNumeric(v) == ToNumber(ToPrimitive(v))

\* x + y: concatenation when either operand is a string.
JsAdd(x, y) ==
    IF x.k = "str" \/ y.k = "str"
    THEN Str(ToText(x) \o ToText(y))
    ELSE NumAdd(ToNumber(x), ToNumber(y))

NumBinary(o, x, y) ==
    CASE o = "-" -> NumSub(x, y)
      [] o = "*" -> NumMul(x, y)
      [] o = "/" -> NumDiv(x, y)

\* The binary operators of the expressions the formulas use.
JsBinary(o, x, y) ==
    IF o = "+" THEN JsAdd(ToPrimitive(x), ToPrimitive(y))
    ELSE NumBinary(o, ToNumeric(x), ToNumeric(y))

\* Truthiness of a value (ToBoolean).
Truthy(v) ==
    CASE v.k = "num" -> v.n # 0
      [] v.k = "nan" -> FALSE
      [] v.k = "inf" -> TRUE
      [] v.k = "str" -> v.s # <<>>
      [] v.k = "bool" -> v.b
      [] OTHER -> FALSE

Positive(d) ==
    CASE d.k = "inf" -> ~d.neg
      [] d.k = "nan" -> FALSE
      [] OTHER -> d.n # 0 /\ ~d.neg

\* x > y for a value x and a finite number y (the relational operator
\* converts a string operand to a number when the other is a number).
GreaterThan(x, y) == Positive(NumSub(ToNumber(x), y))

(***************************************************************************)
(* excelFunctions                                                          *)
(***************************************************************************)
\* args.flat()
RECURSIVE Flat(_)
Flat(args) ==
    IF args = <<>> THEN <<>>
    ELSE (IF Head(args).k = "arr" THEN Head(args).items ELSE <<Head(args)>>)
         \o Flat(Tail(args))

\* v => typeof v === 'number' && !isNaN(v)
IsNumberNotNaN(v) == v.k \in {"num", "inf"}

Nums(args) == SelectSeq(Flat(args), IsNumberNotNaN)

\* nums.reduce((sum, n) => sum + n, 0)
RECURSIVE SumFrom(_, _)
SumFrom(sum, nums) ==
    IF nums = <<>> THEN sum ELSE SumFrom(NumAdd(sum, Head(nums)), Tail(nums))

\* Math.max of two numbers, neither NaN.
Max2(x, y) ==
    IF IsZero(x) /\ IsZero(y) THEN Num(x.neg /\ y.neg, 0, 1)
    ELSE IF Positive(NumSub(y, x)) THEN y ELSE x

Min2(x, y) ==
    IF IsZero(x) /\ IsZero(y) THEN Num(x.neg \/ y.neg, 0, 1)
    ELSE IF Positive(NumSub(x, y)) THEN y ELSE x

RECURSIVE MaxFrom(_, _)
MaxFrom(m, nums) ==
    IF nums = <<>> THEN m ELSE MaxFrom(Max2(m, Head(nums)), Tail(nums))

RECURSIVE MinFrom(_, _)
MinFrom(m, nums) ==
    IF nums = <<>> THEN m ELSE MinFrom(Min2(m, Head(nums)), Tail(nums))

\* Math.round(x): the nearest integer, a tie going towards +Infinity; a zero
\* result keeps the sign of x.
MathRound(x) ==
    CASE x.k = "num" ->
            IF ((IF x.neg THEN 0 - 2 * x.n ELSE 2 * x.n) + x.d) \div (2 * x.d) = 0
            THEN Num(x.neg, 0, 1)
            ELSE N(((IF x.neg THEN 0 - 2 * x.n ELSE 2 * x.n) + x.d) \div (2 * x.d))
      [] OTHER -> x

RECURSIVE Pow10(_)
Pow10(e) == IF e = 0 THEN 1 ELSE 10 * Pow10(e - 1)

\* The rounding with factor = Math.pow(10, Math.abs(decimals)), decimals a
\* whole number other than 0.
RoundWithFactor(number, decimals, factor) ==
    IF decimals.neg
    THEN NumMul(MathRound(NumDiv(number, factor)), factor)
    ELSE NumDiv(MathRound(NumMul(number, factor)), factor)

\* One argument: the value, or undefined when the call passes fewer.
Arg(args, i) == IF i <= Len(args) THEN args[i] ELSE Undefined

\* ROUND: (number, decimals) => ...  (decimals a whole number, NaN or
\* an infinity; with NaN or an infinity every path gives NaN)
ROUND(number, decimals) ==
    CASE decimals.k = "num" /\ decimals.n = 0 -> MathRound(ToNumeric(number))
      [] ToNumeric(decimals).k \in {"nan", "inf"} -> NaN
      [] ToNumeric(decimals).k = "num" /\ ToNumeric(decimals).d = 1 ->
            IF ToNumeric(decimals).n = 0
            THEN NumDiv(MathRound(NumMul(ToNumeric(number), N(1))), N(1))
            ELSE RoundWithFactor(ToNumeric(number), ToNumeric(decimals),
                                 N(Pow10(ToNumeric(decimals).n)))

\* v => v !== null && v !== undefined && v !== ''
CountsAsValue(v) == ~(v.k \in {"null", "undefined"} \/ (v.k = "str" /\ v.s = <<>>))

ExcelFunctionNames ==
    {"SUM", "AVERAGE", "MAX", "MIN", "IF", "ROUND", "ABS", "COUNT", "COUNTA"}

\* this.excelFunctions[name](...args)
excelFunctions(name, args) ==
    CASE name = "SUM" -> SumFrom(N(0), Nums(args))
      [] name = "AVERAGE" ->
            IF Len(Nums(args)) > 0
            THEN NumDiv(SumFrom(N(0), Nums(args)), N(Len(Nums(args)))) ELSE N(0)
      [] name = "MAX" ->
            IF Len(Nums(args)) > 0
            THEN MaxFrom(Head(Nums(args)), Tail(Nums(args))) ELSE N(0)
      [] name = "MIN" ->
            IF Len(Nums(args)) > 0
            THEN MinFrom(Head(Nums(args)), Tail(Nums(args))) ELSE N(0)
      [] name = "IF" ->
            IF Truthy(Arg(args, 1)) \/ Arg(args, 1).k = "arr"
            THEN Arg(args, 2) ELSE Arg(args, 3)
      [] name = "ROUND" -> ROUND(Arg(args, 1), Arg(args, 2))
      [] name = "ABS" ->
            IF ToNumeric(Arg(args, 1)).k = "nan" THEN NaN
            ELSE [ToNumeric(Arg(args, 1)) EXCEPT !.neg = FALSE]
      [] name = "COUNT" -> N(Len(Nums(args)))
      [] name = "COUNTA" -> N(Len(SelectSeq(Flat(args), CountsAsValue)))

(***************************************************************************)
(* Formula text and the rewritten expression, as lexemes                   *)
(***************************************************************************)
\* In a formula text: a bare reference A1, a sheet-qualified reference
\* sheet!A1, a number literal, an operator character.
Cell(col, row) == [t |-> "cell", col |-> col, row |-> row]
QRef(sheet, col, row) == [t |-> "qref", sheet |-> sheet, col |-> col, row |-> row]
Lit(v) == [t |-> "num", v |-> v]
Op(o) == [t |-> "op", o |-> o]
\* Only in the rewritten expression: a quoted string, an identifier (NaN,
\* Infinity), text that no longer lexes.
StrLit(chunks) == [t |-> "str", s |-> chunks]
Ident(name) == [t |-> "ident", name |-> name]
Bad == [t |-> "bad"]
\* A range C10:C12; a function name with its opening parenthesis, SUM( ; the
\* same once rewritten to this.excelFunctions.SUM( ; an array literal [5,15].
Range(col, row, endCol, endRow) ==
    [t |-> "range", col |-> col, row |-> row, endCol |-> endCol, endRow |-> endRow]
Fn(name) == [t |-> "fn", name |-> name]
Call(name) == [t |-> "call", name |-> name]
ArrLit(items) == [t |-> "arr", items |-> items]
\* An address-shaped word (uppercase letters, then digits) inside a string.
Addr(col, row) == [c |-> "addr", col |-> col, row |-> row]

(***************************************************************************)
(* Cell Store: calculatedCells, a Map from key text to value                *)
(***************************************************************************)
QualifiedKey(sheetName, cell) == <<sheetName>> \o cell

\* Without the second write (the bare key).
setCellValueQualifiedOnly(cells, sheetName, cell, value) ==
    LET key == QualifiedKey(sheetName, cell)
    IN  [x \in DOMAIN cells \cup {key} |-> IF x = key THEN value ELSE cells[x]]

\* With a second write that leaves a bare key already present alone.
setCellValueKeepingBare(cells, sheetName, cell, value) ==
    LET key == QualifiedKey(sheetName, cell)
    IN  [x \in DOMAIN cells \cup {key, cell} |->
            IF x = key \/ (x = cell /\ cell \notin DOMAIN cells) THEN value ELSE cells[x]]

\* setCellValue(sheetName, cell, value): calculatedCells.set(key, value) and
\* calculatedCells.set(cell, value).
setCellValue(cells, sheetName, cell, value) ==
    LET key == QualifiedKey(sheetName, cell)
    IN  [x \in DOMAIN cells \cup {key, cell} |->
            IF x \in {key, cell} THEN value ELSE cells[x]]

\* getCellValue(sheetName, cell): the sheet-qualified key, then the
\* unqualified key, then 0.
getCellValue(cells, sheetName, cell) ==
    LET qualifiedKey == QualifiedKey(sheetName, cell)
    IN  IF qualifiedKey \in DOMAIN cells THEN cells[qualifiedKey]
        ELSE IF cell \in DOMAIN cells THEN cells[cell]
        ELSE N(0)

(***************************************************************************)
(* evaluateFormula: the three replace passes, then eval                    *)
(***************************************************************************)
\* The text String(v) of a number, as lexemes of the expression: a negative
\* number contributes a "-" character directly before its digits.
NumberLexemes(v) ==
    CASE v.k = "nan" -> <<Ident("NaN")>>
      [] v.k = "inf" ->
            IF v.neg THEN <<Op("-"), Ident("Infinity")>> ELSE <<Ident("Infinity")>>
      [] OTHER ->
            IF v.neg /\ v.n # 0 THEN <<Op("-"), Lit(Negate(v))>>
            ELSE <<Lit(Num(FALSE, v.n, v.d))>>

\* The replacement callback of both reference passes:
\* typeof value === 'number' ? value : (typeof value === 'string' ? `"${value}"` : 0)
Replacement(value) ==
    IF TypeofNumber(value) THEN NumberLexemes(value)
    ELSE IF TypeofString(value) THEN <<StrLit(value.s)>>
    ELSE <<Lit(N(0))>>

\* The pieces of a sequence of sequences, joined in order.
RECURSIVE Flatten(_)
Flatten(seqs) ==
    IF seqs = <<>> THEN <<>> ELSE Head(seqs) \o Flatten(Tail(seqs))

\* With the last row left out.
evaluateRangeExclusive(cells, startCell, endCell, sheetName) ==
    SelectSeq([i \in 1..(endCell[2] - startCell[2]) |->
                    getCellValue(cells, sheetName, <<startCell[1], startCell[2] + i - 1>>)],
              IsNumberNotNaN)

\* evaluateRange(startCell, endCell, sheetName): the values of startCol for
\* the rows startRow..endRow that are numbers and not NaN.
evaluateRange(cells, startCell, endCell, sheetName) ==
    SelectSeq([i \in 1..(endCell[2] - startCell[2] + 1) |->
                    getCellValue(cells, sheetName, <<startCell[1], startCell[2] + i - 1>>)],
              IsNumberNotNaN)

\* JSON.stringify(values): an infinity is written as null, -0 as 0.
JsonItems(values) ==
    [i \in 1..Len(values) |->
        IF values[i].k = "num"
        THEN (IF IsZero(values[i]) THEN N(0) ELSE values[i]) ELSE Null]

\* jsCode.replace(/([A-Z]+)(\d+):([A-Z]+)(\d+)/g, ...)
RangePass(code, cells, sheetName) ==
    LET F(l) == IF l.t = "range"
                THEN <<ArrLit(JsonItems(evaluateRange(cells, <<l.col, l.row>>,
                                                      <<l.endCol, l.endRow>>, sheetName)))>>
                ELSE <<l>>
    IN  Flatten([i \in 1..Len(code) |-> F(code[i])])

\* jsCode.replace(/SUM\(/g, 'this.excelFunctions.SUM('), and so on for the
\* nine names.
FunctionPass(code) ==
    [i \in 1..Len(code) |->
        IF code[i].t = "fn" /\ code[i].name \in ExcelFunctionNames
        THEN Call(code[i].name) ELSE code[i]]

\* jsCode.replace(/([A-Za-z0-9_\.]+)!([A-Z]+\d+)/g, ...)
QualifiedPass(code, cells) ==
    LET F(l) == IF l.t = "qref"
                THEN Replacement(getCellValue(cells, l.sheet, <<l.col, l.row>>))
                ELSE <<l>>
    IN  Flatten([i \in 1..Len(code) |-> F(code[i])])

\* The text an address-shaped word inside a quoted string is replaced by,
\* given the value of the cell it names.
RescanText(value) ==
    CASE value.k = "num" ->
            IF value.neg /\ value.n # 0
            THEN <<Txt("-"), NumTxt(Negate(value))>> ELSE NumberText(value)
      [] value.k \in {"nan", "inf"} -> ToText(value)
      [] value.k = "str" -> <<>>
      [] OTHER -> <<NumTxt(N(0))>>

\* What the bare-reference pass makes of a quoted string that the qualified
\* pass inserted: an address-shaped word in it is a match like any other.  A
\* string value puts quotes inside the quotes, and the text no longer lexes.
RescanString(chunks, cells, sheetName) ==
    LET F(c) == IF c.c = "addr"
                THEN RescanText(getCellValue(cells, sheetName, <<c.col, c.row>>))
                ELSE <<c>>
    IN  IF \E i \in 1..Len(chunks) :
                /\ chunks[i].c = "addr"
                /\ TypeofString(getCellValue(cells, sheetName,
                                             <<chunks[i].col, chunks[i].row>>))
        THEN <<Bad>>
        ELSE <<StrLit(Flatten([i \in 1..Len(chunks) |-> F(chunks[i])]))>>

\* jsCode.replace(/\b([A-Z]+\d+)\b/g, ...)
BarePass(code, cells, sheetName) ==
    LET F(l) == CASE l.t = "cell" ->
                        Replacement(getCellValue(cells, sheetName, <<l.col, l.row>>))
                  [] l.t = "str" -> RescanString(l.s, cells, sheetName)
                  [] OTHER -> <<l>>
    IN  Flatten([i \in 1..Len(code) |-> F(code[i])])

\* The lexer takes the longest token: two adjacent "-" (or "+") characters
\* are the token "--" ("++").
RECURSIVE JsTokens(_)
JsTokens(code) ==
    IF Len(code) < 2 THEN code
    ELSE IF code[1].t = "op" /\ code[2].t = "op" /\ code[1].o = code[2].o
            /\ code[1].o \in {"-", "+"}
         THEN <<Op(IF code[1].o = "-" THEN "--" ELSE "++")>> \o JsTokens(Tail(Tail(code)))
         ELSE <<Head(code)>> \o JsTokens(Tail(code))

\* A parse: the value of the expression read so far and the tokens left.
Fail == [ok |-> FALSE, v |-> Undefined, rest |-> <<>>]
Ok(v, rest) == [ok |-> TRUE, v |-> v, rest |-> rest]

IsOp(ts, ops) == ts # <<>> /\ Head(ts).t = "op" /\ Head(ts).o \in ops

RECURSIVE ParseAdditive(_), ParseArgs(_, _)

\* After one argument: a comma and more arguments, or the closing parenthesis.
ArgsNext(args, r) ==
    IF ~r.ok THEN Fail
    ELSE IF IsOp(r.rest, {","}) THEN ParseArgs(Tail(r.rest), Append(args, r.v))
    ELSE IF IsOp(r.rest, {")"}) THEN Ok(Append(args, r.v), Tail(r.rest))
    ELSE Fail

\* The arguments of a call, up to its closing parenthesis.
ParseArgs(ts, args) ==
    IF ts = <<>> THEN Fail
    ELSE IF IsOp(ts, {")"}) THEN Ok(args, Tail(ts))
    ELSE ArgsNext(args, ParseAdditive(ts))

CallResult(name, r) ==
    IF ~r.ok THEN Fail ELSE Ok(excelFunctions(name, r.v), r.rest)

\* ( expression )
Parenthesized(r) ==
    IF r.ok /\ IsOp(r.rest, {")"}) THEN Ok(r.v, Tail(r.rest)) ELSE Fail

ParsePrimary(ts) ==
    IF ts = <<>> THEN Fail
    ELSE CASE Head(ts).t = "num" -> Ok(Head(ts).v, Tail(ts))
           [] Head(ts).t = "arr" -> Ok(Arr(Head(ts).items), Tail(ts))
           [] Head(ts).t = "call" ->
                CallResult(Head(ts).name, ParseArgs(Tail(ts), <<>>))
           [] Head(ts).t = "op" /\ Head(ts).o = "(" -> Parenthesized(ParseAdditive(Tail(ts)))
           [] Head(ts).t = "str" -> Ok(Str(Head(ts).s), Tail(ts))
           [] Head(ts).t = "ident" ->
                Ok(IF Head(ts).name = "NaN" THEN NaN ELSE Infinity(FALSE), Tail(ts))
           [] OTHER -> Fail

\* -x and +x
ApplyUnary(o, r) ==
    IF ~r.ok THEN Fail
    ELSE IF o = "-" THEN Ok(Negate(ToNumeric(r.v)), r.rest)
    ELSE Ok(ToNumeric(r.v), r.rest)

RECURSIVE ParseUnary(_)
ParseUnary(ts) ==
    IF IsOp(ts, {"-", "+"}) THEN ApplyUnary(Head(ts).o, ParseUnary(Tail(ts)))
    ELSE ParsePrimary(ts)

RECURSIVE MulTail(_), MulStep(_, _, _)
\* left * right, left / right, and on to the next factor
MulStep(o, left, r) ==
    IF ~left.ok \/ ~r.ok THEN Fail ELSE MulTail(Ok(JsBinary(o, left.v, r.v), r.rest))

MulTail(left) ==
    IF left.ok /\ IsOp(left.rest, {"*", "/"})
    THEN MulStep(Head(left.rest).o, left, ParseUnary(Tail(left.rest)))
    ELSE left

ParseMultiplicative(ts) == MulTail(ParseUnary(ts))

RECURSIVE AddTail(_), AddStep(_, _, _)
\* left + right, left - right, and on to the next term
AddStep(o, left, r) ==
    IF ~left.ok \/ ~r.ok THEN Fail ELSE AddTail(Ok(JsBinary(o, left.v, r.v), r.rest))

AddTail(left) ==
    IF left.ok /\ IsOp(left.rest, {"+", "-"})
    THEN AddStep(Head(left.rest).o, left, ParseMultiplicative(Tail(left.rest)))
    ELSE left

ParseAdditive(ts) == AddTail(ParseMultiplicative(ts))

EvalOutcome(jsCode, r) ==
    IF jsCode = <<>> THEN [threw |-> FALSE, v |-> Undefined]
    ELSE IF r.ok /\ r.rest = <<>> THEN [threw |-> FALSE, v |-> r.v]
    ELSE [threw |-> TRUE, v |-> Undefined]

\* eval(jsCode): the value of the expression, or a thrown SyntaxError (or
\* TypeError: "--" and "++" never have an assignable operand here).
eval(jsCode) == EvalOutcome(jsCode, ParseAdditive(JsTokens(jsCode)))

\* The rewritten expression: the range pass, the qualified pass, the bare
\* pass, then the function names.
RewrittenCode(cells, formula, sheetName) ==
    FunctionPass(BarePass(QualifiedPass(RangePass(formula, cells, sheetName), cells),
                          cells, sheetName))

\* An evaluateFormula that leaves the key in this.processing.
EvaluatedKeepingKey(proc, cellKey, r) ==
    IF cellKey \in proc
    THEN [result |-> N(0), processing |-> proc, circular |-> TRUE, caught |-> FALSE]
    ELSE [result |-> IF r.threw THEN N(0) ELSE r.v,
          processing |-> proc \cup {cellKey},
          circular |-> FALSE, caught |-> r.threw]

\* An evaluateFormula whose catch does not delete the key.
EvaluatedKeepingKeyOnFailure(proc, cellKey, r) ==
    IF cellKey \in proc
    THEN [result |-> N(0), processing |-> proc, circular |-> TRUE, caught |-> FALSE]
    ELSE [result |-> IF r.threw THEN N(0) ELSE r.v,
          processing |-> IF r.threw THEN proc \cup {cellKey} ELSE proc \ {cellKey},
          circular |-> FALSE, caught |-> r.threw]

\* What evaluateFormula returns and leaves in this.processing, given eval's
\* outcome r.
Evaluated(proc, cellKey, r) ==
    IF cellKey \in proc
    THEN [result |-> N(0), processing |-> proc, circular |-> TRUE, caught |-> FALSE]
    ELSE [result |-> IF r.threw THEN N(0) ELSE r.v,
          processing |-> (proc \cup {cellKey}) \ {cellKey},
          circular |-> FALSE, caught |-> r.threw]

\* evaluateFormula(formula, sheetName, cellAddress) with this.calculatedCells =
\* cells and this.processing = proc.
evaluateFormula(cells, proc, formula, sheetName, cellAddress) ==
    Evaluated(proc, QualifiedKey(sheetName, cellAddress),
              eval(RewrittenCode(cells, formula, sheetName)))

(***************************************************************************)
(* The workbook model (excelData) and the caller's mapping (formData)      *)
(*                                                                         *)
(* excelData.sheets and excelData.inputs are objects: here sequences in    *)
(* property order, with unique names/keys.  An absent property is a flag   *)
(* (hasFormulas, hasStatic, hasInputs) next to an empty list.              *)
(***************************************************************************)
FormulaDef(cell, formula) == [cell |-> cell, formula |-> formula]
StaticValue(cell, value) == [cell |-> cell, value |-> value]
InputDef(key, sheet, cell, default) ==
    [key |-> key, sheet |-> sheet, cell |-> cell, default |-> default]
SheetDef(name, hasFormulas, formulas, hasStatic, static_values) ==
    [name |-> name, hasFormulas |-> hasFormulas, formulas |-> formulas,
     hasStatic |-> hasStatic, static_values |-> static_values]
Workbook(hasInputs, inputDefs, sheets) ==
    [readable |-> TRUE, hasInputs |-> hasInputs, inputs |-> inputDefs, sheets |-> sheets]
\* A document that fs.readFile or yaml.load rejects.
Unreadable == [readable |-> FALSE]

HasSheet(wb, name) == \E i \in 1..Len(wb.sheets) : wb.sheets[i].name = name
SheetNamed(wb, name) ==
    wb.sheets[CHOOSE i \in 1..Len(wb.sheets) : wb.sheets[i].name = name]

\* obj[key], undefined when the property is absent.
Lookup(obj, key) == IF key \in DOMAIN obj THEN obj[key] ELSE Undefined

\* fieldNameMapping: old frontend field names -> YAML field names.
fieldNameMapping ==
    << <<"company_name", "applicant_name">>,
       <<"contact_person", "pan">>,
       <<"company_address", "center">>,
       <<"business_sector", "emp_name">>,
       <<"nature_of_business", "rm_name">>,
       <<"wc_loan_amount", "credit_limit">>,
       <<"wc_interest_rate", "proposed_roi">>,
       <<"processing_fees", "processing_fee">>,
       <<"wc_percentage", "conversion_charges">>,
       <<"num_skilled_workers", "partner_count">>,
       <<"skilled_worker_salary", "partner_salary">>,
       <<"num_semi_skilled_workers", "manager_count">>,
       <<"semi_skilled_worker_salary", "manager_salary">>,
       <<"num_unskilled_workers", "staff_count">>,
       <<"unskilled_worker_salary", "staff_salary">>,
       <<"monthly_power_charges", "electricity">>,
       <<"rent_increment_multiplier", "rent">>,
       <<"sales_growth_multiplier", "growth_rate">>,
       <<"turnover_months_year_1", "year1_months">>,
       <<"turnover_months_year_2", "year2_months">>,
       <<"monthly_rent", "marketing_expenses">>,
       <<"power_charges_increment_multiplier", "other_expenses">> >>

Defined(v) == v.k \notin {"undefined", "null"}

\* const inputData = formData.excelData || formData
InputDataOf(fd) == IF fd.wrapped THEN fd.excelData ELSE fd.own

\* The positions of fieldNameMapping whose old name the caller supplies
\* (not undefined, not null).
SuppliedAliases(inputData) ==
    {i \in 1..Len(fieldNameMapping) : Defined(Lookup(inputData, fieldNameMapping[i][1]))}

\* The old name supplied for newName.
OldNameFor(inputData, newName) ==
    fieldNameMapping[CHOOSE i \in SuppliedAliases(inputData) :
                        fieldNameMapping[i][2] = newName][1]

NewNames(inputData) == {fieldNameMapping[i][2] : i \in SuppliedAliases(inputData)}

\* normalizedData = { ...inputData }, then normalizedData[newName] =
\* inputData[oldName] for every supplied old name.
Aliased(inputData) ==
    [key \in DOMAIN inputData \cup NewNames(inputData) |->
        IF key \in NewNames(inputData)
        THEN inputData[OldNameFor(inputData, key)]
        ELSE inputData[key]]

PercentLikeLimit == 1
MultiplierLikeLimit == 10

\* The conditional rescaling of six named fields.
UnitHeuristic(key, v) ==
    CASE key \in {"proposed_roi", "processing_fee", "conversion_charges"} ->
            IF Truthy(v) /\ GreaterThan(v, N(PercentLikeLimit))
            THEN NumDiv(ToNumber(v), N(100)) ELSE v
      [] key \in {"rent", "other_expenses"} ->
            IF Truthy(v) /\ GreaterThan(v, N(MultiplierLikeLimit))
            THEN NumAdd(N(1), NumDiv(ToNumber(v), N(100))) ELSE v
      [] key = "growth_rate" ->
            IF Truthy(v) /\ GreaterThan(v, N(MultiplierLikeLimit))
            THEN NumDiv(ToNumber(v), N(100)) ELSE v
      [] OTHER -> v

Rescaled(a) == [key \in DOMAIN a |-> UnitHeuristic(key, a[key])]

\* With the rescaling done on the caller's data, before the old names are
\* mapped to the new ones.
RescaledThenAliased(inputData) == Aliased(Rescaled(inputData))

\* normalizedData as the input mapping loop sees it.
NormalizedData(inputData) == Rescaled(Aliased(inputData))

\* One call of setCellValue, with the place in the code that makes it.
Write(sheet, cell, value, by, key) ==
    [sheet |-> sheet, cell |-> cell, value |-> value, by |-> by, key |-> key]

RECURSIVE ApplyWrites(_, _)
ApplyWrites(cells, ws) ==
    IF ws = <<>> THEN cells
    ELSE ApplyWrites(setCellValue(cells, Head(ws).sheet, Head(ws).cell, Head(ws).value),
                     Tail(ws))

\* if (value !== undefined && value !== null) this.setCellValue(...)
InputWrite(inputDef, value) ==
    IF Defined(value)
    THEN <<Write(inputDef.sheet, inputDef.cell, value, "input", inputDef.key)>>
    ELSE <<>>

\* for (const [inputKey, inputDef] of Object.entries(this.excelData.inputs))
InputWrites(wb, nd) ==
    LET F(inputDef) ==
            InputWrite(inputDef,
                       IF Lookup(nd, inputDef.key).k # "undefined"
                       THEN nd[inputDef.key] ELSE inputDef.default)
    IN  Flatten([i \in 1..Len(wb.inputs) |-> F(wb.inputs[i])])

DefaultMonthlyRent == 7500

\* The input mapping corrections: I30, I29, I28, I31, I35 of Assumptions.1.
PinWrites(nd) ==
    LET Pin(key, cell) ==
            IF Lookup(nd, key).k # "undefined"
            THEN <<Write("Assumptions.1", cell, nd[key], "pin", key)>> ELSE <<>>
        monthlyRentAmount ==
            IF Truthy(Lookup(nd, "monthly_rent")) THEN nd["monthly_rent"]
            ELSE N(DefaultMonthlyRent)
    IN  Pin("electricity", <<"I", 30>>)
        \o Pin("rent", <<"I", 29>>)
        \o <<Write("Assumptions.1", <<"I", 28>>, monthlyRentAmount, "pin",
                    IF Truthy(Lookup(nd, "monthly_rent")) THEN "monthly_rent" ELSE "")>>
        \o Pin("marketing_expenses", <<"I", 31>>)
        \o Pin("other_expenses", <<"I", 35>>)

\* Load all static values from all sheets.
StaticWrites(wb) ==
    LET F(sheetData) ==
            IF sheetData.hasStatic
            THEN LET H(staticValue) ==
                        IF Defined(staticValue.value)
                        THEN <<Write(sheetData.name, staticValue.cell, staticValue.value,
                                     "static", "")>>
                        ELSE <<>>
                 IN  Flatten([i \in 1..Len(sheetData.static_values) |-> H(sheetData.static_values[i])])
            ELSE <<>>
    IN  Flatten([i \in 1..Len(wb.sheets) |-> F(wb.sheets[i])])

MonthsInYear == 12

\* F84 and F72..F76 of Assumptions.1.
FixWrites ==
    <<Write("Assumptions.1", <<"F", 84>>, N(MonthsInYear), "fix", "")>>
    \o [i \in 1..5 |-> Write("Assumptions.1", <<"F", 71 + i>>, N(0), "fix", "")]

\* With the input mapping corrections made before the input mapping loop.
WritesPinsFirst(wb, nd) ==
    PinWrites(nd) \o InputWrites(wb, nd) \o StaticWrites(wb) \o FixWrites

\* setInputs(formData): every setCellValue call it makes, in order.
WritesInOrder(wb, nd) ==
    InputWrites(wb, nd) \o PinWrites(nd) \o StaticWrites(wb) \o FixWrites

setInputsWrites(wb, fd) == WritesInOrder(wb, NormalizedData(InputDataOf(fd)))

\* const sheetOrder = [...] of calculateAll.
sheetOrder ==
    <<"Assumptions.1", "Depsch", "wc", "FinalWorkings", "plbs", "RATIO", "MPBF",
      "Nayak", "Coverpage">>

\* generateResponse iterates sheetData.formulas of every sheet but 'wc' and
\* 'Assumptions.1'; a sheet without the property makes it throw.
generateResponseThrows(wb) ==
    \E i \in 1..Len(wb.sheets) :
        /\ wb.sheets[i].name \notin {"wc", "Assumptions.1"}
        /\ ~wb.sheets[i].hasFormulas

\* formatWCSheetData: getVal(cell) of the cells of columns C to G of the
\* rows of the line items; getVal gives the stored number, and 0 for
\* anything that is not a number.
WcColumns == {"C", "D", "E", "F", "G"}
WcRows ==
    {8, 10, 11, 12, 13, 15, 17, 19, 21, 23, 25, 27, 29, 36, 39, 40, 42, 46, 53,
     54, 56, 58, 64, 65, 66, 67, 68, 69, 73, 80}

getVal(cells, cell) ==
    IF IsNumberNotNaN(getCellValue(cells, "wc", cell))
    THEN getCellValue(cells, "wc", cell) ELSE N(0)

formatWCSheetData(cells) ==
    [cell \in WcColumns \X WcRows |-> getVal(cells, cell)]

\* formatAssumptionsBasicInfo: inputData[key] is the stored value of the
\* declared cell of every input; the groups report these keys of it.
BasicInfoKeys ==
    {"applicant_name", "pan", "center", "emp_name", "rm_name", "credit_limit",
     "proposed_roi", "processing_fee", "conversion_charges", "partner_count",
     "manager_count", "staff_count", "partner_salary", "manager_salary",
     "staff_salary", "electricity", "rent", "marketing_expenses",
     "other_expenses", "growth_rate", "year1_months", "year2_months",
     "land_cost", "building_cost", "furniture_cost"}

formatAssumptionsBasicInfo(wb, cells) ==
    [key \in {wb.inputs[i].key : i \in 1..Len(wb.inputs)} \cap BasicInfoKeys |->
        LET inputDef == wb.inputs[CHOOSE i \in 1..Len(wb.inputs) : wb.inputs[i].key = key]
        IN  getCellValue(cells, inputDef.sheet, inputDef.cell)]

\* The generic shape of a sheet. formulas[cell].result is what the store
\* holds; values[cell].value is the declared static value; rows[row][cell]
\* is filled from the formulas first and the static values after them, so
\* that a cell with both shows its declared static value.
FormulaCells(sheetData) ==
    {sheetData.formulas[i].cell : i \in 1..Len(sheetData.formulas)}
StaticCells(sheetData) ==
    IF sheetData.hasStatic
    THEN {sheetData.static_values[i].cell : i \in 1..Len(sheetData.static_values)}
    ELSE {}
DeclaredValue(sheetData, cell) ==
    sheetData.static_values[
        CHOOSE i \in 1..Len(sheetData.static_values) :
            /\ sheetData.static_values[i].cell = cell
            /\ \A j \in (i + 1)..Len(sheetData.static_values) :
                    sheetData.static_values[j].cell # cell].value

GenericShape(sheetData, cells) ==
    [name |-> sheetData.name,
     formulas |-> [cell \in FormulaCells(sheetData) |->
                      getCellValue(cells, sheetData.name, cell)],
     values |-> [cell \in StaticCells(sheetData) |-> DeclaredValue(sheetData, cell)],
     rows |-> [cell \in FormulaCells(sheetData) \cup StaticCells(sheetData) |->
                  IF cell \in StaticCells(sheetData)
                  THEN DeclaredValue(sheetData, cell)
                  ELSE getCellValue(cells, sheetData.name, cell)]]

SheetData(wb, cells, sheetData) ==
    CASE sheetData.name = "wc" -> formatWCSheetData(cells)
      [] sheetData.name = "Assumptions.1" -> formatAssumptionsBasicInfo(wb, cells)
      [] OTHER -> GenericShape(sheetData, cells)

generateResponse(wb, cells) ==
    [success |-> TRUE,
     approach |-> "PRODUCTION_YAML_ENGINE_V3",
     total_sheets |-> Len(wb.sheets),
     total_calculated |-> Cardinality(DOMAIN cells),
     data |-> [name \in {wb.sheets[i].name : i \in 1..Len(wb.sheets)} |->
                  SheetData(wb, cells, SheetNamed(wb, name))]]

(***************************************************************************)
(* Bounds and the documents and mappings a run is explored with            *)
(***************************************************************************)
MaxFormulas == 2
MaxKeys == 2

A1 == <<"A", 1>>
B1 == <<"B", 1>>
F84 == <<"F", 84>>
I28 == <<"I", 28>>

\* Formula texts: A1, A1+1, B1+1, A1/B1, A1*B1, A1+ (malformed), and
\* references to cells of the other sheets.
FormulaTexts ==
    { <<Cell("A", 1)>>,
      <<Cell("A", 1), Op("+"), Lit(N(1))>>,
      <<Cell("B", 1), Op("+"), Lit(N(1))>>,
      <<Cell("A", 1), Op("/"), Cell("B", 1)>>,
      <<Cell("A", 1), Op("*"), Cell("B", 1)>>,
      <<Cell("A", 1), Op("+")>>,
      <<QRef("wc", "A", 1)>>,
      <<QRef("wc", "B", 1)>>,
      <<QRef("Assumptions.1", "A", 1)>>,
      <<QRef("Assumptions.1", "F", 84)>> }

FormulaDefs == {FormulaDef(c, f) : c \in {A1, B1}, f \in FormulaTexts}

\* The formulas of the lists of more than one formula: a later formula reads
\* what an earlier one stored.
ChainTexts ==
    { <<Cell("A", 1), Op("+"), Lit(N(1))>>,
      <<Cell("B", 1), Op("+"), Lit(N(1))>>,
      <<Cell("A", 1), Op("/"), Cell("B", 1)>>,
      <<QRef("wc", "A", 1)>> }

ChainDefs == {FormulaDef(c, f) : c \in {A1, B1}, f \in ChainTexts}

FormulaLists ==
    {<<>>} \cup {<<d>> : d \in FormulaDefs}
    \cup UNION {[1..n -> ChainDefs] : n \in 2..MaxFormulas}

\* Static values of the sheet under study.
StaticLists ==
    { <<>>,
      <<StaticValue(A1, N(1))>>,
      <<StaticValue(B1, N(0))>>,
      <<StaticValue(A1, N(0)), StaticValue(B1, N(0))>>,
      <<StaticValue(A1, N(2)), StaticValue(B1, Str(<<Txt("abc")>>))>>,
      <<StaticValue(A1, Null), StaticValue(B1, N(4))>> }

\* The sheets around it: the first and the third of sheetOrder.
AssumptionsSheet ==
    SheetDef("Assumptions.1", TRUE, <<>>, TRUE,
             <<StaticValue(A1, N(3)), StaticValue(F84, N(10))>>)
WcSheet ==
    SheetDef("wc", TRUE, <<FormulaDef(A1, <<Cell("B", 1), Op("+"), Lit(N(1))>>)>>,
             TRUE, <<StaticValue(B1, N(7))>>)

Surroundings ==
    { <<>>, <<AssumptionsSheet>>, <<WcSheet>>, <<AssumptionsSheet, WcSheet>> }

\* Workbooks that vary the formulas of one sheet.
FormulaWorkbooks ==
    { Workbook(TRUE, <<>>, <<SheetDef("Depsch", TRUE, fs, TRUE, st)>> \o around) :
        fs \in FormulaLists, st \in StaticLists, around \in Surroundings }

\* Workbooks with a missing property: no formulas list, no static values
\* list, no inputs catalogue.
IncompleteWorkbooks ==
    { Workbook(TRUE, <<>>, <<SheetDef("Depsch", FALSE, <<>>, TRUE, <<StaticValue(A1, N(1))>>)>>),
      Workbook(TRUE, <<>>, <<SheetDef("Extra", FALSE, <<>>, TRUE, <<>>), AssumptionsSheet>>),
      Workbook(TRUE, <<>>, <<SheetDef("Depsch", TRUE, <<FormulaDef(A1, <<Cell("B", 1)>>)>>,
                                      FALSE, <<>>)>>),
      Workbook(FALSE, <<>>, <<AssumptionsSheet>>) }

\* Input catalogues: the declared cell of credit_limit, marketing_expenses,
\* proposed_roi and (a legacy name declared in its own right) monthly_rent.
InputDefs ==
    { InputDef("credit_limit", "Assumptions.1", A1, Undefined),
      InputDef("credit_limit", "Assumptions.1", <<"C", 5>>, N(12)),
      InputDef("marketing_expenses", "Assumptions.1", <<"C", 6>>, Undefined),
      InputDef("proposed_roi", "Assumptions.1", <<"C", 7>>, Undefined),
      InputDef("monthly_rent", "Assumptions.1", <<"C", 8>>, Undefined),
      InputDef("staff_count", "Assumptions.1", A1, N(12)) }

InputCatalogues ==
    { q \in UNION {[1..n -> InputDefs] : n \in 0..2} :
        \A i, j \in 1..Len(q) : i # j => q[i].key # q[j].key }

InputWorkbooks ==
    { Workbook(TRUE, q, <<AssumptionsSheet>>) : q \in InputCatalogues }

\* Workbooks with a range: static values for C10..C12 (null: none is
\* loaded), optionally a formula that stores an infinity in C11, then a
\* formula over the range.
RangeValues == {N(5), N(15), N(-3), Str(<<Txt("abc")>>), Null}

RangeStatics ==
    { <<StaticValue(<<"C", 10>>, a), StaticValue(<<"C", 11>>, b),
        StaticValue(<<"C", 12>>, c)>> : a \in RangeValues, b \in RangeValues,
                                         c \in RangeValues }

C10toC12 == Range("C", 10, "C", 12)

RangeTexts ==
    { <<Fn("SUM"), C10toC12, Op(")")>>,
      <<Fn("COUNT"), C10toC12, Op(")")>>,
      <<Fn("AVERAGE"), C10toC12, Op(")")>>,
      <<Fn("SUM"), Range("C", 12, "C", 10), Op(")")>>,
      <<Fn("SUM"), Range("C", 10, "D", 11), Op(","), Cell("C", 12), Op(")")>>,
      <<Lit(N(1)), Op("+"), Fn("MAX"), C10toC12, Op(")")>>,
      <<C10toC12>> }

RangeFormulaLists ==
    { before \o <<FormulaDef(A1, f)>> :
        before \in { <<>>,
                     <<FormulaDef(<<"C", 11>>,
                                  <<Cell("C", 10), Op("/"), Cell("B", 1)>>)>> },
        f \in RangeTexts }

RangeWorkbooks ==
    { Workbook(TRUE, <<>>, <<SheetDef("Depsch", TRUE, fs, TRUE, st)>>) :
        fs \in RangeFormulaLists, st \in RangeStatics }

\* Workbooks with a rounding: static values for C10 (the number) and C11
\* (the decimals), and ROUND over them or over literals.
RoundNumbers ==
    {N(1234), N(-1234), N(150), N(-150), Num(FALSE, 5, 2), Num(TRUE, 5, 2),
     Num(TRUE, 2, 5)}
RoundDecimals == {N(0), N(-2), N(1)}

RoundStatics ==
    { <<StaticValue(<<"C", 10>>, x), StaticValue(<<"C", 11>>, d)>> :
        x \in RoundNumbers, d \in RoundDecimals }

RoundOfCells == <<Fn("ROUND"), Cell("C", 10), Op(","), Cell("C", 11), Op(")")>>

RoundTexts ==
    { RoundOfCells,
      <<Fn("ROUND"), Op("-"), Lit(N(5)), Op("/"), Lit(N(2)), Op(","), Lit(N(0)),
        Op(")")>> }

RoundWorkbooks ==
    { Workbook(TRUE, <<>>, <<SheetDef("Depsch", TRUE, <<FormulaDef(A1, f)>>, TRUE, st)>>) :
        f \in RoundTexts, st \in RoundStatics }

\* Workbooks with a subtraction and a negation: static values for A1 and
\* B1, and the formula A1-B1 or -A1 in C5.
MinusValues == {N(5), N(-3), N(0), Num(TRUE, 1, 2)}

AMinusB == <<Cell("A", 1), Op("-"), Cell("B", 1)>>
MinusA == <<Op("-"), Cell("A", 1)>>

MinusWorkbooks ==
    { Workbook(TRUE, <<>>,
               <<SheetDef("Depsch", TRUE, <<FormulaDef(<<"C", 5>>, f)>>, TRUE,
                          <<StaticValue(A1, x), StaticValue(B1, y)>>)>>) :
        f \in {AMinusB, MinusA}, x \in MinusValues, y \in MinusValues }

\* Workbooks with a stored text: a static value for B1 (a text that is an
\* address-shaped word, a text without one, a negative number) and the
\* formula Depsch!B1 in C5.
TextValues == {Str(<<Addr("FY", 2025)>>), Str(<<Txt("abc")>>), N(-3)}

TextWorkbooks ==
    { Workbook(TRUE, <<>>,
               <<SheetDef("Depsch", TRUE,
                          <<FormulaDef(<<"C", 5>>, <<QRef("Depsch", "B", 1)>>)>>, TRUE,
                          <<StaticValue(B1, v)>>)>>) : v \in TextValues }

\* Workbooks with a sheet that sheetOrder does not name: 'Extra', with the
\* formula A1 = B1+1 and the static value B1 = 4, alone or before a sheet
\* that sheetOrder names.
ExtraSheet ==
    SheetDef("Extra", TRUE, <<FormulaDef(A1, <<Cell("B", 1), Op("+"), Lit(N(1))>>)>>,
             TRUE, <<StaticValue(B1, N(4))>>)

UnorderedWorkbooks ==
    { Workbook(TRUE, <<>>, <<ExtraSheet>>),
      Workbook(TRUE, <<>>,
               <<ExtraSheet,
                 SheetDef("Depsch", TRUE,
                          <<FormulaDef(A1, <<Cell("B", 1), Op("*"), Lit(N(2))>>)>>,
                          TRUE, <<>>)>>) }

\* Workbooks whose inputs share a cell with something else: credit_limit
\* declared on I31 (the cell marketing_expenses is pinned to), and
\* credit_limit declared on B1, an address for which only another sheet
\* declares a static value.
SharedCellWorkbooks ==
    { Workbook(TRUE,
               <<InputDef("credit_limit", "Assumptions.1", <<"I", 31>>, Undefined),
                 InputDef("marketing_expenses", "Assumptions.1", <<"C", 6>>, Undefined)>>,
               <<AssumptionsSheet>>),
      Workbook(TRUE, <<InputDef("credit_limit", "Assumptions.1", B1, Undefined)>>,
               <<AssumptionsSheet, WcSheet>>) }

\* Workbooks that declare the inputs of the unit heuristics: the three
\* percentage-like ones, and the two multiplier-like ones.
PercentWorkbook ==
    Workbook(TRUE,
             <<InputDef("proposed_roi", "Assumptions.1", <<"C", 5>>, Undefined),
               InputDef("processing_fee", "Assumptions.1", <<"C", 6>>, Undefined),
               InputDef("conversion_charges", "Assumptions.1", <<"C", 7>>, Undefined)>>,
             <<AssumptionsSheet>>)
MultiplierWorkbook ==
    Workbook(TRUE,
             <<InputDef("rent", "Assumptions.1", <<"C", 7>>, Undefined),
               InputDef("other_expenses", "Assumptions.1", <<"C", 8>>, Undefined)>>,
             <<AssumptionsSheet>>)
UnitWorkbooks == {PercentWorkbook, MultiplierWorkbook}

Workbooks ==
    FormulaWorkbooks \cup IncompleteWorkbooks \cup InputWorkbooks \cup RangeWorkbooks
        \cup RoundWorkbooks \cup SharedCellWorkbooks \cup UnitWorkbooks
        \cup MinusWorkbooks \cup TextWorkbooks \cup UnorderedWorkbooks

FormKeys ==
    {"credit_limit", "wc_loan_amount", "marketing_expenses", "monthly_rent",
     "proposed_roi", "wc_interest_rate"}
FormValues == {N(5), N(9), Null}

\* The keys setInputs reads for a document: the declared keys and their
\* legacy names.
UnitKeys(doc) ==
    {doc.inputs[i].key : i \in 1..Len(doc.inputs)}
    \cup {fieldNameMapping[i][1] : i \in
            {j \in 1..Len(fieldNameMapping) :
                \E d \in 1..Len(doc.inputs) : doc.inputs[d].key = fieldNameMapping[j][2]}}

\* Those of FormKeys, with the keys that the input mapping corrections read
\* for every document.
FormKeysFor(doc) == FormKeys \cap (UnitKeys(doc) \cup {"marketing_expenses", "monthly_rent"})

Mappings(doc) ==
    UNION {[ks -> FormValues] : ks \in {x \in SUBSET FormKeysFor(doc) : Cardinality(x) <= MaxKeys}}

\* For the workbooks of the unit heuristics: values on both sides of the
\* two limits.
UnitValues == {N(1), N(10), N(12)}

UnitMappings(doc) ==
    UNION {[ks -> UnitValues] : ks \in {x \in SUBSET UnitKeys(doc) : Cardinality(x) <= MaxKeys}}

FormData(own) == [wrapped |-> FALSE, own |-> own, excelData |-> <<>>]
WrappedFormData(data) == [wrapped |-> TRUE, own |-> <<>>, excelData |-> data]

\* The mappings a document is run with.
FormDatasFor(doc) ==
    IF doc \in UnitWorkbooks THEN {FormData(m) : m \in UnitMappings(doc)}
    ELSE IF doc.readable /\ doc.inputs # <<>>
    THEN {FormData(m) : m \in Mappings(doc)}
         \cup {WrappedFormData(m) : m \in [{"wc_loan_amount"} -> FormValues]}
    ELSE {FormData(<<>>)}

(***************************************************************************)
(* The engine and one execute() call                                       *)
(***************************************************************************)
VARIABLES
    file,            \* the document at dataPath
    excelData,       \* this.excelData
    inputs,          \* this.inputs
    calculatedCells, \* this.calculatedCells
    processing,      \* this.processing
    pc,              \* where the execute() call stands
    formData,        \* its argument
    sheetIdx,        \* calculateAll: index into sheetOrder
    formulaIdx,      \* calculateSheet: index into sheet.formulas
    response,        \* what execute() returned
    parked,          \* the other execute() call on the engine, not on the stack
    writes,          \* history: the setCellValue calls of the run
    lastEval,        \* history: the last evaluateFormula call
    returned,        \* history: the calls that returned, and what they returned
    service          \* a call of the ExcelCalculationService, and the script it ran

vars == <<file, excelData, inputs, calculatedCells, processing, pc, formData,
          sheetIdx, formulaIdx, response, parked, writes, lastEval, returned,
          service>>

NoCall == [called |-> FALSE]
NoServiceCall == [pc |-> "idle"]
NoEval == [n |-> 0]

\* What an execute() call holds of its own: its argument and where it stands.
Locals(p, fd, s, f, r) ==
    [pc |-> p, formData |-> fd, sheetIdx |-> s, formulaIdx |-> f, response |-> r]
NotCalled == Locals("idle", NoCall, 0, 0, Null)

Init ==
    /\ file \in Workbooks \cup {Unreadable}
    /\ excelData = Null
    /\ inputs = <<>>
    /\ calculatedCells = <<>>
    /\ processing = {}
    /\ pc = "idle"
    /\ formData = NoCall
    /\ sheetIdx = 0
    /\ formulaIdx = 0
    /\ response = Null
    /\ parked = NotCalled
    /\ writes = <<>>
    /\ lastEval = NoEval
    /\ returned = <<>>
    /\ service = NoServiceCall

\* execute(formData) is called: it awaits loadExcelData().
execute ==
    /\ pc = "idle"
    /\ \E fd \in FormDatasFor(file) : formData' = fd
    /\ pc' = "loading"
    /\ UNCHANGED <<file, excelData, inputs, calculatedCells, processing, sheetIdx,
                   formulaIdx, response, writes, lastEval>>
    /\ UNCHANGED <<parked, returned>>
    /\ UNCHANGED service

\* loadExcelData(): fs.readFile and yaml.load succeed.
loadExcelData ==
    /\ pc = "loading"
    /\ file.readable
    /\ excelData' = file
    /\ pc' = "loaded"
    /\ UNCHANGED <<file, inputs, calculatedCells, processing, formData, sheetIdx,
                   formulaIdx, response, writes, lastEval>>
    /\ UNCHANGED <<parked, returned>>
    /\ UNCHANGED service

\* loadExcelData() rejects, and execute() with it.
loadExcelDataFails ==
    /\ pc = "loading"
    /\ ~file.readable
    /\ pc' = "rejected"
    /\ UNCHANGED <<file, excelData, inputs, calculatedCells, processing, formData,
                   sheetIdx, formulaIdx, response, writes, lastEval>>
    /\ UNCHANGED <<parked, returned>>
    /\ UNCHANGED service

\* setInputs(formData), then calculateAll() up to its first calculateSheet.
setInputs ==
    /\ pc = "loaded"
    /\ excelData.hasInputs
    /\ inputs' = formData
    /\ writes' = writes \o setInputsWrites(excelData, formData)
    /\ calculatedCells' = ApplyWrites(calculatedCells, setInputsWrites(excelData, formData))
    /\ pc' = "calc"
    /\ sheetIdx' = 1
    /\ formulaIdx' = 1
    /\ UNCHANGED <<file, excelData, processing, formData, response, lastEval>>
    /\ UNCHANGED <<parked, returned>>
    /\ UNCHANGED service

\* Object.entries(this.excelData.inputs) throws when the document has no
\* inputs: execute() rejects.
setInputsThrows ==
    /\ pc = "loaded"
    /\ ~excelData.hasInputs
    /\ inputs' = formData
    /\ pc' = "rejected"
    /\ UNCHANGED <<file, excelData, calculatedCells, processing, formData, sheetIdx,
                   formulaIdx, response, writes, lastEval>>
    /\ UNCHANGED <<parked, returned>>
    /\ UNCHANGED service

\* With the sheet names taken from the end of sheetOrder.
LastSheetNameFirst == sheetOrder[Len(sheetOrder) + 1 - sheetIdx]

CurrentSheetName == sheetOrder[sheetIdx]
InCalc == pc = "calc" /\ sheetIdx <= Len(sheetOrder)

\* calculateSheet(sheetName): the sheet is not in the workbook.
sheetNotFound ==
    /\ InCalc
    /\ ~HasSheet(excelData, CurrentSheetName)
    /\ sheetIdx' = sheetIdx + 1
    /\ formulaIdx' = 1
    /\ UNCHANGED <<file, excelData, inputs, calculatedCells, processing, pc, formData,
                   response, writes, lastEval>>
    /\ UNCHANGED <<parked, returned>>
    /\ UNCHANGED service

\* calculateSheet(sheetName): sheet.formulas is not iterable; the TypeError
\* is thrown outside the loop's try and rejects execute().
calculateSheetThrows ==
    /\ InCalc
    /\ HasSheet(excelData, CurrentSheetName)
    /\ ~SheetNamed(excelData, CurrentSheetName).hasFormulas
    /\ pc' = "rejected"
    /\ UNCHANGED <<file, excelData, inputs, calculatedCells, processing, formData,
                   sheetIdx, formulaIdx, response, writes, lastEval>>
    /\ UNCHANGED <<parked, returned>>
    /\ UNCHANGED service

\* The effects of one turn of the loop of calculateSheet, r being what
\* evaluateFormula returned and jsCode the expression it handed to eval.
StoreResult(formulaDef, jsCode, r) ==
    /\ processing' = r.processing
    /\ calculatedCells' =
            setCellValue(calculatedCells, CurrentSheetName, formulaDef.cell, r.result)
    /\ writes' = Append(writes, Write(CurrentSheetName, formulaDef.cell, r.result,
                                      "formula", ""))
    /\ lastEval' = [n |-> lastEval.n + 1, sheet |-> CurrentSheetName,
                    cell |-> formulaDef.cell, formula |-> formulaDef.formula,
                    jsCode |-> jsCode, result |-> r.result, circular |-> r.circular,
                    caught |-> r.caught, index |-> formulaIdx, at |-> Len(writes),
                    entered |-> processing]

EvaluateAndStore(formulaDef) ==
    StoreResult(formulaDef,
                RewrittenCode(calculatedCells, formulaDef.formula, CurrentSheetName),
                evaluateFormula(calculatedCells, processing, formulaDef.formula,
                                CurrentSheetName, formulaDef.cell))

\* One turn of the loop of calculateSheet: evaluateFormula, then setCellValue.
calculateFormula ==
    /\ InCalc
    /\ HasSheet(excelData, CurrentSheetName)
    /\ SheetNamed(excelData, CurrentSheetName).hasFormulas
    /\ formulaIdx <= Len(SheetNamed(excelData, CurrentSheetName).formulas)
    /\ EvaluateAndStore(SheetNamed(excelData, CurrentSheetName).formulas[formulaIdx])
    /\ formulaIdx' = formulaIdx + 1
    /\ UNCHANGED <<file, excelData, inputs, pc, formData, sheetIdx, response>>
    /\ UNCHANGED <<parked, returned>>
    /\ UNCHANGED service

\* calculateSheet returns; calculateAll goes on to the next sheet name.
sheetDone ==
    /\ InCalc
    /\ HasSheet(excelData, CurrentSheetName)
    /\ SheetNamed(excelData, CurrentSheetName).hasFormulas
    /\ formulaIdx > Len(SheetNamed(excelData, CurrentSheetName).formulas)
    /\ sheetIdx' = sheetIdx + 1
    /\ formulaIdx' = 1
    /\ UNCHANGED <<file, excelData, inputs, calculatedCells, processing, pc, formData,
                   response, writes, lastEval>>
    /\ UNCHANGED <<parked, returned>>
    /\ UNCHANGED service

\* calculateAll is done: generateResponse(), and execute() returns it.
respond ==
    /\ pc = "calc"
    /\ sheetIdx > Len(sheetOrder)
    /\ ~generateResponseThrows(excelData)
    /\ response' = generateResponse(excelData, calculatedCells)
    /\ pc' = "done"
    /\ UNCHANGED <<file, excelData, inputs, calculatedCells, processing, formData,
                   sheetIdx, formulaIdx, writes, lastEval>>
    /\ returned' = Append(returned, [formData |-> formData, response |-> response'])
    /\ UNCHANGED parked
    /\ UNCHANGED service

\* generateResponse() throws: execute() rejects.
respondThrows ==
    /\ pc = "calc"
    /\ sheetIdx > Len(sheetOrder)
    /\ generateResponseThrows(excelData)
    /\ pc' = "rejected"
    /\ UNCHANGED <<file, excelData, inputs, calculatedCells, processing, formData,
                   sheetIdx, formulaIdx, response, writes, lastEval>>
    /\ UNCHANGED <<parked, returned>>
    /\ UNCHANGED service

Next ==
    \/ execute
    \/ loadExcelData
    \/ loadExcelDataFails
    \/ setInputs
    \/ setInputsThrows
    \/ sheetNotFound
    \/ calculateSheetThrows
    \/ calculateFormula
    \/ sheetDone
    \/ respond
    \/ respondThrows

Spec == Init /\ [][Next]_vars

(***************************************************************************)
(* Two execute() calls on one engine.  The calls share the fields of the   *)
(* engine; each has its own argument and position.  pc, formData,          *)
(* sheetIdx, formulaIdx and response are those of the call whose           *)
(* continuation runs or is queued; parked holds those of the other.        *)
(***************************************************************************)

\* A scheduler that resumes an awaiting call from the task queue, as after
\* a timer: nothing is pending in the microtask queue at any position.
AwaitAsTask(p) == FALSE

\* After its read completed and until it returns, a call awaits promises
\* that are already resolved (await this.loadExcelData() after the read,
\* await this.calculateSheet(sheetName), await this.calculateAll()): its
\* continuation is in the microtask queue whenever it is not running.
MicrotasksPending(p) == p \in {"loaded", "calc"}

\* The documents two calls are explored with: those of one sheet.
CallWorkbooks ==
    {wb \in FormulaWorkbooks : Len(wb.sheets) = 1} \cup IncompleteWorkbooks

InitCalls ==
    /\ Init
    /\ file \in CallWorkbooks \cup {Unreadable}

\* execute(formData) is called a second time: by code that runs, so not
\* while a continuation of the first call is queued.  It awaits its own
\* read of the document.
executeAgain ==
    /\ pc # "idle"
    /\ ~MicrotasksPending(pc)
    /\ parked.pc = "idle"
    /\ \E fd \in FormDatasFor(file) : parked' = Locals("loading", fd, 0, 0, Null)
    /\ UNCHANGED <<file, excelData, inputs, calculatedCells, processing, pc, formData,
                   sheetIdx, formulaIdx, response, writes, lastEval, returned>>
    /\ UNCHANGED service

\* The read of the other call completes.  The callback of an I/O completion
\* runs when the microtask queue is empty; from there on the other call is
\* the one that runs.
readFileCompletes ==
    /\ parked.pc = "loading"
    /\ ~MicrotasksPending(pc)
    /\ parked' = Locals(pc, formData, sheetIdx, formulaIdx, response)
    /\ pc' = parked.pc
    /\ formData' = parked.formData
    /\ sheetIdx' = parked.sheetIdx
    /\ formulaIdx' = parked.formulaIdx
    /\ response' = parked.response
    /\ UNCHANGED <<file, excelData, inputs, calculatedCells, processing, writes,
                   lastEval, returned>>
    /\ UNCHANGED service

NextCalls ==
    \/ Next
    \/ executeAgain
    \/ readFileCompletes

SpecCalls == InitCalls /\ [][NextCalls]_vars

(***************************************************************************)
(* TemplateMappingService and ExcelCalculationService.  A cell reference   *)
(* is a column letter of either case and a row; an object is the sequence  *)
(* of its entries in insertion order.                                      *)
(***************************************************************************)
Ref(col, row) == <<col, row>>

\* toLowerCase() on a cell reference
LowerCase(col) ==
    CASE col = "H" -> "h"
      [] col = "I" -> "i"
      [] OTHER -> col
Lower(ref) == Ref(LowerCase(ref[1]), ref[2])

Entry(key, value) == [key |-> key, value |-> value]
Keys(obj) == {obj[i].key : i \in 1..Len(obj)}
\* obj[key] = value
Put(obj, key, value) ==
    IF key \in Keys(obj)
    THEN [i \in 1..Len(obj) |-> IF obj[i].key = key THEN Entry(key, value) ELSE obj[i]]
    ELSE Append(obj, Entry(key, value))

\* No template id: null, undefined or '' (the code tests its truthiness).
NoTemplate == ""

\* normalizeTemplateId: 'CC' and the digits that follow it in the upper-cased
\* id, the id itself when there is no such match.
normalizeTemplateId(templateId) ==
    CASE templateId \in {"CC1", "Format CC1", "frcc1"} -> "CC1"
      [] templateId \in {"CC4", "Format CC4", "frcc4"} -> "CC4"
      [] OTHER -> templateId

\* getMapping(templateId) is not null.  In a mapping, finance_section is
\* finance_section.rows and sections[name] is the property name_section.
HasMapping(mappings, templateId) == normalizeTemplateId(templateId) \in DOMAIN mappings
getMapping(mappings, templateId) == mappings[normalizeTemplateId(templateId)]

getFinanceCells(mappings, templateId) ==
    IF HasMapping(mappings, templateId)
    THEN getMapping(mappings, templateId).finance_section ELSE <<>>

getInputRows(mappings, templateId, section) ==
    IF HasMapping(mappings, templateId)
        /\ section \in DOMAIN getMapping(mappings, templateId).sections
    THEN getMapping(mappings, templateId).sections[section].input_rows ELSE {}

getFormulaRows(mappings, templateId, section) ==
    IF HasMapping(mappings, templateId)
        /\ section \in DOMAIN getMapping(mappings, templateId).sections
    THEN getMapping(mappings, templateId).sections[section].formula_rows ELSE {}

getFixedAssetsMapping(mappings, templateId) ==
    IF HasMapping(mappings, templateId)
    THEN getMapping(mappings, templateId).fixed_assets ELSE <<>>

canWriteToRow(mappings, templateId, section, rowNumber) ==
    IF rowNumber \in getFormulaRows(mappings, templateId, section) THEN FALSE
    ELSE rowNumber \in getInputRows(mappings, templateId, section)

\* filterWritableCells: the section of a row, "" when it has none.
SectionOf(rowNum) ==
    CASE rowNum >= 22 /\ rowNum <= 43 -> "audited"
      [] rowNum >= 44 /\ rowNum <= 66 -> "provisional"
      [] rowNum >= 67 /\ rowNum <= 99 -> "assumptions"
      [] OTHER -> ""

InFixedAssetsRange(templateId, rowNum) ==
    \/ templateId \in {"CC1", "Format CC1"} /\ rowNum >= 100 /\ rowNum <= 200
    \/ templateId \in {"CC2", "Format CC2"} /\ rowNum >= 121 /\ rowNum <= 221

\* filterWritableCells: whether one entry is kept.
IsWritable(mappings, templateId, cellRef) ==
    IF Lower(cellRef) \in DOMAIN getFinanceCells(mappings, templateId)
    THEN getFinanceCells(mappings, templateId)[Lower(cellRef)] = "input"
    ELSE IF SectionOf(cellRef[2]) # ""
    THEN canWriteToRow(mappings, templateId, SectionOf(cellRef[2]), cellRef[2])
    ELSE InFixedAssetsRange(templateId, cellRef[2]) \/ SectionOf(cellRef[2]) = ""

filterWritableCells(mappings, templateId, cellData) ==
    IF ~HasMapping(mappings, templateId) THEN cellData
    ELSE LET Kept(entry) == IsWritable(mappings, templateId, entry.key)
         IN  SelectSeq(cellData, Kept)

\* A request payload: the place of its cell mapping ("direct", in
\* formData.excelData or in formData.formData.excelData), the mapping, and
\* its Fixed Assets Schedule ("" for none, else a category with one item).
Payload(shape, cells, schedule) == [shape |-> shape, cells |-> cells, schedule |-> schedule]

\* key.match(/^[d-eh-j]\d+$/i)
LooksLikeCell(ref) == LowerCase(ref[1]) \in {"d", "e", "h", "i", "j"}

\* extractFormData: cellData
CellDataOf(payload) ==
    IF payload.shape = "direct"
    THEN IF \E key \in Keys(payload.cells) : LooksLikeCell(key)
         THEN payload.cells ELSE <<>>
    ELSE payload.cells

\* templateColumnRules[normalizedTemplateId] || /^[h-j]\d+$/
AllowedColumns(normalizedTemplateId) ==
    CASE normalizedTemplateId \in {"CC1", "CC2", "CC3"} ->
            {"b", "c", "d", "e", "h", "i", "j"}
      [] normalizedTemplateId \in {"CC4", "CC5", "CC6"} -> {"d", "e", "h", "i", "j"}
      [] OTHER -> {"h", "i", "j"}

\* An entry value {label, value}
Labelled(value) == [k |-> "obj", value |-> value]
\* (value && typeof value === 'object' && 'value' in value) ? value.value : value
CellValueOf(value) == IF value.k = "obj" THEN value.value ELSE value

RECURSIVE NormalizedFrom(_, _, _)
NormalizedFrom(normalizedData, cellData, allowed) ==
    IF cellData = <<>> THEN normalizedData
    ELSE NormalizedFrom(
            IF Head(cellData).key[1] \in allowed
            THEN Put(normalizedData, Head(cellData).key, CellValueOf(Head(cellData).value))
            ELSE normalizedData,
            Tail(cellData), allowed)

\* extractFormData: normalizedData.  lowerKey.match(allowedPattern) tests the
\* lower-cased key, and the lower-cased key is the one stored.
NormalizedCells(payload, templateId) ==
    NormalizedFrom(<<>>,
                   [i \in 1..Len(CellDataOf(payload)) |->
                       Entry(Lower(CellDataOf(payload)[i].key), CellDataOf(payload)[i].value)],
                   AllowedColumns(normalizeTemplateId(templateId)))

\* extractFormData(payload, templateId).  filteredData, the result of
\* filterWritableCells(templateId, normalizedData), is computed and logged;
\* what is returned is normalizedData.
extractFormData(mappings, payload, templateId) == NormalizedCells(payload, templateId)

Update(sheet, cell, value) == [sheet |-> sheet, cell |-> cell, value |-> value]

\* The fallback of extractFixedAssetsSchedule when the template has no
\* fixed assets mapping.
DefaultFixedAssetsRows ==
    [category \in {"plant_machinery", "service_equipment", "shed_civil", "land",
                   "electrical", "electronic", "furniture", "vehicles",
                   "other_assets", "capital_wip"} |->
        CASE category = "plant_machinery" -> 135
          [] category = "service_equipment" -> 145
          [] category = "shed_civil" -> 155
          [] category = "land" -> 165
          [] category = "electrical" -> 168
          [] category = "electronic" -> 178
          [] category = "furniture" -> 188
          [] category = "vehicles" -> 198
          [] category = "other_assets" -> 208
          [] category = "capital_wip" -> 217]

\* categoryNameMap[categoryName] (of the names the payloads use)
MappingKeyOf(categoryName) == IF categoryName = "Land" THEN "land" ELSE categoryName

\* extractFixedAssetsSchedule(formDataPayload, templateId): the updates of
\* the first item of the category the schedule holds.
extractFixedAssetsSchedule(mappings, payload, templateId) ==
    IF normalizeTemplateId(templateId) \in {"CC1", "CC2", "CC3"} THEN <<>>
    ELSE IF payload.schedule = "" THEN <<>>
    ELSE LET given == getFixedAssetsMapping(mappings, templateId)
             categoryRowMapping == IF DOMAIN given = {} THEN DefaultFixedAssetsRows ELSE given
             mappingKey == MappingKeyOf(payload.schedule)
         IN  IF mappingKey \notin DOMAIN categoryRowMapping THEN <<>>
             ELSE << Update("Assumptions.1", Ref("d", categoryRowMapping[mappingKey]),
                            Str(<<Txt("description")>>)),
                     Update("Assumptions.1", Ref("e", categoryRowMapping[mappingKey]),
                            N(4000)) >>

\* The updates both entry points build: one per extracted cell, then the
\* fixed assets.
UpdatesFor(mappings, payload, templateId) ==
    [i \in 1..Len(extractFormData(mappings, payload, templateId)) |->
        Update("Assumptions.1", extractFormData(mappings, payload, templateId)[i].key,
               extractFormData(mappings, payload, templateId)[i].value)]
    \o extractFixedAssetsSchedule(mappings, payload, templateId)

\* process.env
Env(grok, perplexity) == [GROK_API_KEY |-> grok, PERPLEXITY_API_KEY |-> perplexity]

\* A lookup that takes a key from the environment whatever the provider.
AnyEnvironmentKey(apiKey, aiProvider, env) ==
    IF Truthy(apiKey) THEN apiKey
    ELSE IF Truthy(env.GROK_API_KEY) THEN env.GROK_API_KEY ELSE env.PERPLEXITY_API_KEY

\* generateFullReport: finalApiKey
FinalApiKey(apiKey, aiProvider, env) ==
    IF Truthy(apiKey) THEN apiKey
    ELSE IF aiProvider = "grok" THEN env.GROK_API_KEY ELSE env.PERPLEXITY_API_KEY

ApiKeyRequired(aiProvider) ==
    IF aiProvider = "grok"
    THEN "GROK API key is required. Set GROK_API_KEY environment variable or provide in request."
    ELSE "PERPLEXITY API key is required. Set PERPLEXITY_API_KEY environment variable or provide in request."

CalculationFailed == "Failed to calculate Excel data using Python engine."
\* `Template file not found: ${filename} (templateId: ${templateId})`
TemplateNotFound == "Template file not found"
ScriptFailed == "Python script failed with code 1"

\* A call of the service: the mappings the TemplateMappingService loaded,
\* the arguments, whether runPythonScript was called and with which updates
\* and key, and the error the call rejected with.
ServiceCall(method, mappings, templateId, payload, apiKey, aiProvider, env) ==
    [pc |-> "called", method |-> method, mappings |-> mappings,
     templateId |-> templateId, payload |-> payload,
     apiKey |-> apiKey, aiProvider |-> aiProvider, env |-> env,
     invoked |-> FALSE, updates |-> <<>>, key |-> Undefined, error |-> ""]

Rejected(call, error) == [call EXCEPT !.pc = "rejected", !.error = error]
Spawned(call, updates, key) ==
    [call EXCEPT !.pc = "script", !.invoked = TRUE, !.updates = updates, !.key = key]

\* Bounds and pools of the service calls.
MaxCells == 2

TemplateMapping ==
    [finance_section |-> (Ref("h", 12) :> "input" @@ Ref("h", 13) :> "formula"),
     sections |-> [audited |-> [input_rows |-> {23}, formula_rows |-> {24}]],
     fixed_assets |-> [land |-> 165]]

\* template-mappings.json: mappings for CC1 and CC4, or none (the file
\* could not be loaded).
MappingDocuments == { <<>>, [CC1 |-> TemplateMapping, CC4 |-> TemplateMapping] }

TemplateIds == {NoTemplate, "CC1", "frcc4"}

\* Cell entries: a finance input and a finance formula cell, the latter in
\* upper case as well, an input row, a formula row and an unlisted row of
\* the audited section, a row outside the sections, a column no template
\* allows.
CellEntries ==
    { Entry(Ref("h", 12), Labelled(N(7))), Entry(Ref("h", 13), N(5)),
      Entry(Ref("H", 13), N(9)), Entry(Ref("i", 23), N(5)), Entry(Ref("i", 24), N(5)),
      Entry(Ref("i", 30), N(5)), Entry(Ref("i", 5), N(5)), Entry(Ref("a", 5), N(5)) }

CellMappings ==
    { cells \in UNION {[1..n -> CellEntries] : n \in 0..MaxCells} :
        \A i, j \in 1..Len(cells) : i # j => cells[i].key # cells[j].key }

Payloads ==
    { Payload(shape, cells, schedule) :
        shape \in {"direct", "nested", "deep"}, cells \in CellMappings,
        schedule \in {"", "Land"} }

ApiKeys == {Undefined, Str(<<>>), Str(<<Txt("key")>>)}
Environments ==
    { Env(Undefined, Undefined), Env(Str(<<Txt("env-grok")>>), Undefined),
      Env(Undefined, Str(<<Txt("env-perplexity")>>)) }

EngineIdle ==
    UNCHANGED <<file, excelData, inputs, calculatedCells, processing, pc, formData,
                sheetIdx, formulaIdx, response, parked, writes, lastEval, returned>>

\* The part of applyFormDataAndCalculate up to its await: the updates, the
\* template path (resolveTemplatePath throws when the file does not exist,
\* and the catch replaces the error), the call of runPythonScript.
ApplyOutcome(call, templateExists) ==
    IF ~templateExists THEN Rejected(call, CalculationFailed)
    ELSE Spawned(call, UpdatesFor(call.mappings, call.payload, call.templateId), Undefined)

applyFormDataAndCalculate ==
    /\ service.pc = "idle"
    /\ \E templateId \in TemplateIds, payload \in Payloads,
          mappings \in MappingDocuments, templateExists \in BOOLEAN :
            service' = ApplyOutcome(
                ServiceCall("applyFormDataAndCalculate", mappings, templateId, payload,
                            Undefined, "", Env(Undefined, Undefined)),
                templateExists)
    /\ EngineIdle

\* The part of generateFullReport up to its await: the key (the catch
\* rethrows the error), the updates, the template path, runPythonScript.
ReportOutcome(call, templateExists) ==
    IF ~Truthy(FinalApiKey(call.apiKey, call.aiProvider, call.env))
    THEN Rejected(call, ApiKeyRequired(call.aiProvider))
    ELSE IF ~templateExists THEN Rejected(call, TemplateNotFound)
    ELSE Spawned(call, UpdatesFor(call.mappings, call.payload, call.templateId),
                 FinalApiKey(call.apiKey, call.aiProvider, call.env))

generateFullReport ==
    /\ service.pc = "idle"
    /\ \E templateId \in TemplateIds, payload \in Payloads,
          mappings \in MappingDocuments, templateExists \in BOOLEAN,
          apiKey \in ApiKeys, aiProvider \in {"grok", "perplexity"},
          env \in Environments :
            service' = ReportOutcome(
                ServiceCall("generateFullReport", mappings, templateId, payload,
                            apiKey, aiProvider, env),
                templateExists)
    /\ EngineIdle

\* The script exits with code 0 and a result that reports success.
scriptSucceeds ==
    /\ service.pc = "script"
    /\ service' = [service EXCEPT !.pc = "done"]
    /\ EngineIdle

\* The script exits with another code: runPythonScript rejects;
\* applyFormDataAndCalculate replaces the error, generateFullReport
\* rethrows it.
scriptFails ==
    /\ service.pc = "script"
    /\ service' = Rejected(service,
                           IF service.method = "applyFormDataAndCalculate"
                           THEN CalculationFailed ELSE ScriptFailed)
    /\ EngineIdle

InitService ==
    /\ Init
    /\ file = Unreadable

NextService ==
    \/ applyFormDataAndCalculate
    \/ generateFullReport
    \/ scriptSucceeds
    \/ scriptFails

SpecService == InitService /\ [][NextService]_vars

(***************************************************************************)
(* Properties                                                              *)
(***************************************************************************)
\* The setCellValue calls made before the last evaluateFormula call.
PriorWrites == SubSeq(writes, 1, lastEval.at)

WrittenQualified(ws, sheet, cell) ==
    \E i \in 1..Len(ws) : ws[i].sheet = sheet /\ ws[i].cell = cell

CycleFormulas ==
    << FormulaDef(A1, <<Cell("B", 1), Op("+"), Lit(N(1))>>),
       FormulaDef(B1, <<Cell("A", 1), Op("+"), Lit(N(1))>>) >>

\* The only writes to A1 and B1 are the two formula results of the sheet.
OnlyTheCycleWrites(name) ==
    \A i \in 1..Len(writes) :
        writes[i].cell \in {A1, B1} => writes[i].by = "formula" /\ writes[i].sheet = name

\* C1: after a run over a sheet whose formulas are, in declared order,
\* A1 = B1+1 and B1 = A1+1 (neither cell set by an input or a static value),
\* both A1 and B1 hold 0 in the Cell Store.
C1_CycleResolvesToZero ==
    pc = "done" =>
        \A i \in 1..Len(excelData.sheets) :
            ( /\ excelData.sheets[i].name \in {sheetOrder[j] : j \in 1..Len(sheetOrder)}
              /\ excelData.sheets[i].hasFormulas
              /\ excelData.sheets[i].formulas = CycleFormulas
              /\ OnlyTheCycleWrites(excelData.sheets[i].name) )
            => /\ getCellValue(calculatedCells, excelData.sheets[i].name, A1) = N(0)
               /\ getCellValue(calculatedCells, excelData.sheets[i].name, B1) = N(0)

\* The state right after a turn of the loop of calculateSheet.
JustEvaluated ==
    /\ lastEval.n > 0
    /\ Len(writes) = lastEval.at + 1

SelfReferences == { <<Cell("A", 1)>>, <<Cell("A", 1), Op("+"), Lit(N(1))>> }

\* C2: evaluating a formula located at A1 whose text references A1 itself
\* (A1, A1+1) terminates, does not raise, and the result stored for A1 is 0.
C2_SelfReferenceYieldsZero ==
    (JustEvaluated /\ lastEval.cell = A1 /\ lastEval.formula \in SelfReferences)
    => /\ lastEval.result = N(0)
       /\ getCellValue(calculatedCells, lastEval.sheet, A1) = N(0)

\* C3: execute(formData) rejects if and only if loading the document fails;
\* every loaded workbook yields a result with success = true whatever the
\* anomalies; on a load failure no Cell Store write has happened.
C3_RejectsOnlyOnLoadFailure ==
    /\ pc = "rejected" => ~file.readable /\ writes = <<>>
    /\ pc = "done" => file.readable /\ response.success

\* A "/" whose right operand is a substituted zero.
DividesByZero(code) ==
    \E i \in 1..(Len(code) - 1) :
        code[i] = Op("/") /\ code[i + 1] = Lit(N(0))

\* A "*" or "/" next to a substituted string.
MixesTypes(code) ==
    \E i \in 1..(Len(code) - 1) :
        \/ code[i].t = "op" /\ code[i].o \in {"*", "/"} /\ code[i + 1].t = "str"
        \/ code[i].t = "str" /\ code[i + 1].t = "op" /\ code[i + 1].o \in {"*", "/"}

\* C4: any runtime failure while evaluating one formula (malformed
\* rewritten expression, division by a zero-valued cell, type mismatch)
\* makes evaluateFormula return 0 for that cell, and the next formula is
\* evaluated.
C4_FailureYieldsZero ==
    (lastEval.n > 0
        /\ (lastEval.caught \/ DividesByZero(lastEval.jsCode) \/ MixesTypes(lastEval.jsCode)))
    => lastEval.result = N(0)

\* C5: every value held in the Cell Store is a finite number or a string.
C5_StoreHoldsFiniteNumbersOrStrings ==
    \A key \in DOMAIN calculatedCells :
        IsFinite(calculatedCells[key]) \/ TypeofString(calculatedCells[key])

\* The sheets and addresses of the explored documents.
SheetNames == {"Assumptions.1", "Depsch", "wc", "Extra"}
Addresses ==
    {A1, B1, F84, I28, <<"C", 5>>, <<"C", 6>>, <<"C", 7>>, <<"C", 8>>, <<"I", 31>>,
     <<"F", 72>>}

\* set(sheet, address, v) has just acted on cells: get(sheet, address) returns
\* v and the bare key address maps to v.
SetThenGetAt(cells, w) ==
    /\ getCellValue(cells, w.sheet, w.cell) = w.value
    /\ w.cell \in DOMAIN cells
    /\ cells[w.cell] = w.value
    /\ QualifiedKey(w.sheet, w.cell) \in DOMAIN cells
    /\ cells[QualifiedKey(w.sheet, w.cell)] = w.value

\* The calls ws replayed one by one from the store cells: each of them, on
\* the store it met, leaves the store as SetThenGetAt says.
RECURSIVE ReplayedFrom(_, _)
ReplayedFrom(cells, ws) ==
    \/ ws = <<>>
    \/ /\ SetThenGetAt(setCellValue(cells, Head(ws).sheet, Head(ws).cell, Head(ws).value),
                       Head(ws))
       /\ ReplayedFrom(setCellValue(cells, Head(ws).sheet, Head(ws).cell, Head(ws).value),
                       Tail(ws))

\* C6: immediately after set(sheet, address, v), get(sheet, address) returns
\* v and the bare key address maps to v (the setCellValue calls of setInputs
\* replayed one by one on the store each of them met, the calls of
\* calculateSheet in the state they leave); get returns 0 when neither the
\* qualified key nor the bare address has ever been written.
C6_SetThenGet ==
    /\ (pc = "calc" /\ lastEval.n = 0 /\ sheetIdx = 1 /\ formulaIdx = 1)
            => ReplayedFrom(<<>>, writes)
    /\ JustEvaluated => SetThenGetAt(calculatedCells, writes[Len(writes)])
    /\ \A cell \in Addresses \ {writes[i].cell : i \in 1..Len(writes)} :
            \A sheet \in SheetNames : getCellValue(calculatedCells, sheet, cell) = N(0)

\* C6 witness: a formula result was stored over an address that an earlier
\* write had set, and some address was never written.
C6_Witness ==
    /\ JustEvaluated
    /\ \E i \in 1..lastEval.at :
            writes[i].cell = lastEval.cell /\ writes[i].value # lastEval.result
    /\ \E cell \in Addresses : \A i \in 1..Len(writes) : writes[i].cell # cell

\* The last call evaluated a formula that is one sheet-qualified reference.
ReadsQualified ==
    lastEval.n > 0 /\ Len(lastEval.formula) = 1 /\ lastEval.formula[1].t = "qref"
ReadSheet == lastEval.formula[1].sheet
ReadCell == <<lastEval.formula[1].col, lastEval.formula[1].row>>

HasFormulaAt(sheetData, cell) ==
    /\ sheetData.hasFormulas
    /\ \E i \in 1..Len(sheetData.formulas) : sheetData.formulas[i].cell = cell

\* The reference names a formula cell of a sheet of the workbook whose
\* qualified key nothing has written yet.
ReadsUnprocessedFormulaCell ==
    /\ ReadsQualified
    /\ HasSheet(excelData, ReadSheet)
    /\ HasFormulaAt(SheetNamed(excelData, ReadSheet), ReadCell)
    /\ ~WrittenQualified(PriorWrites, ReadSheet, ReadCell)

\* C7: a sheet-qualified reference to a formula cell of a sheet not yet
\* processed is read as 0, whatever other sheets have already written.
C7_WrongOrderReadsZero ==
    ReadsUnprocessedFormulaCell
    => lastEval.jsCode = <<Lit(N(0))>> /\ lastEval.result = N(0)

\* Every static value of every sheet was written before the last evaluation,
\* and nothing but formula results since the first evaluation.
StaticsLoadedBefore ==
    /\ \A s \in 1..Len(excelData.sheets) :
        excelData.sheets[s].hasStatic =>
            \A j \in 1..Len(excelData.sheets[s].static_values) :
                Defined(excelData.sheets[s].static_values[j].value) =>
                    \E k \in 1..lastEval.at :
                        writes[k] = Write(excelData.sheets[s].name,
                                          excelData.sheets[s].static_values[j].cell,
                                          excelData.sheets[s].static_values[j].value,
                                          "static", "")
    /\ \A k \in 1..Len(writes) :
        writes[k].by = "formula" => \A m \in k..Len(writes) : writes[m].by = "formula"

\* The values the sheet declares for the address among its static values.
DeclaredStatic(sheetData, cell) ==
    {sheetData.static_values[j].value : j \in
        {i \in 1..Len(sheetData.static_values) : sheetData.static_values[i].cell = cell}}

\* The reference names a cell that its sheet declares once, as a static
\* value (not null), and not as a formula cell.
ReadsStaticCell ==
    /\ ReadsQualified
    /\ HasSheet(excelData, ReadSheet)
    /\ SheetNamed(excelData, ReadSheet).hasStatic
    /\ Cardinality(DeclaredStatic(SheetNamed(excelData, ReadSheet), ReadCell)) = 1
    /\ \A v \in DeclaredStatic(SheetNamed(excelData, ReadSheet), ReadCell) : Defined(v)
    /\ ~HasFormulaAt(SheetNamed(excelData, ReadSheet), ReadCell)

\* C8: every evaluation comes after the static values of all sheets
\* are written, and a sheet-qualified reference to a static-value cell gets
\* the declared static value whatever the order of the two sheets.
C8_StaticReadInAnyOrder ==
    lastEval.n > 0 =>
        /\ StaticsLoadedBefore
        /\ ReadsStaticCell =>
            \A v \in DeclaredStatic(SheetNamed(excelData, ReadSheet), ReadCell) :
                lastEval.jsCode = Replacement(v)

\* The state setInputs leaves: writes holds its setCellValue calls.
AfterSetInputs == pc = "calc" /\ lastEval.n = 0 /\ sheetIdx = 1 /\ formulaIdx = 1

\* The input definitions of the workbook declared under key.
DeclaredFor(key) ==
    {excelData.inputs[d] : d \in {i \in 1..Len(excelData.inputs) :
                                        excelData.inputs[i].key = key}}

\* The input mapping loop wrote value to the cell declared by inputDef.
InputWritten(inputDef, value) ==
    \E k \in 1..Len(writes) :
        writes[k] = Write(inputDef.sheet, inputDef.cell, value, "input", inputDef.key)

\* C9: when the caller's mapping holds both a legacy alias key and its
\* canonical key, with different values, the value written to the cell
\* declared for the canonical input is the one supplied under the canonical
\* key (after any unit heuristic).
C9_CanonicalWins ==
    AfterSetInputs =>
        \A i \in 1..Len(fieldNameMapping) :
            ( /\ Defined(Lookup(InputDataOf(formData), fieldNameMapping[i][1]))
              /\ Defined(Lookup(InputDataOf(formData), fieldNameMapping[i][2]))
              /\ Lookup(InputDataOf(formData), fieldNameMapping[i][1])
                    # Lookup(InputDataOf(formData), fieldNameMapping[i][2]) )
            => \A inputDef \in DeclaredFor(fieldNameMapping[i][2]) :
                    InputWritten(inputDef,
                                 UnitHeuristic(fieldNameMapping[i][2],
                                               InputDataOf(formData)[fieldNameMapping[i][2]]))

LegacyNames == {fieldNameMapping[i][1] : i \in 1..Len(fieldNameMapping)}

\* C10: when an input is supplied only under its legacy alias key (and the
\* workbook declares no input under a legacy name), setInputs writes the
\* value, after any unit heuristic, to the cell declared for the canonical
\* key, and makes no write on behalf of the alias key itself.
C10_AliasOnlyLandsInCanonicalCell ==
    (AfterSetInputs /\ \A name \in LegacyNames : DeclaredFor(name) = {}) =>
        \A i \in 1..Len(fieldNameMapping) :
            ( /\ Defined(Lookup(InputDataOf(formData), fieldNameMapping[i][1]))
              /\ fieldNameMapping[i][2] \notin DOMAIN InputDataOf(formData) )
            => /\ \A inputDef \in DeclaredFor(fieldNameMapping[i][2]) :
                    InputWritten(inputDef,
                                 UnitHeuristic(fieldNameMapping[i][2],
                                               InputDataOf(formData)[fieldNameMapping[i][1]]))
               /\ \A k \in 1..Len(writes) : writes[k].key # fieldNameMapping[i][1]

\* The caller supplies the input neither under its key nor under a legacy
\* name of it.
NotSupplied(key) ==
    /\ key \notin DOMAIN InputDataOf(formData)
    /\ \A i \in 1..Len(fieldNameMapping) :
        fieldNameMapping[i][2] = key =>
            fieldNameMapping[i][1] \notin DOMAIN InputDataOf(formData)

\* C11: for every declared input that the caller does not supply (under its
\* key or an alias) and that declares a default value d, get(input.sheet,
\* input.cell) returns d when setInputs has finished, whatever static values,
\* other inputs and pinned cells the workbook contains.
C11_DefaultHeldAfterSetInputs ==
    AfterSetInputs =>
        \A d \in 1..Len(excelData.inputs) :
            (Defined(excelData.inputs[d].default) /\ NotSupplied(excelData.inputs[d].key))
            => getCellValue(calculatedCells, excelData.inputs[d].sheet,
                            excelData.inputs[d].cell) = excelData.inputs[d].default

\* The store that the last evaluateFormula call met.
PriorCells == ApplyWrites(<<>>, PriorWrites)

\* The finite numbers among the values get returns for rows row..endRow of
\* the column, in row order.
RECURSIVE RangeNumbers(_, _, _, _, _)
RangeNumbers(cells, sheet, col, row, endRow) ==
    IF row > endRow THEN <<>>
    ELSE (IF getCellValue(cells, sheet, <<col, row>>).k = "num"
          THEN <<getCellValue(cells, sheet, <<col, row>>)>> ELSE <<>>)
         \o RangeNumbers(cells, sheet, col, row + 1, endRow)

IsNotNull(v) == v.k # "null"

\* C12: a range token C10:C12 expands, in row order, to the numeric values
\* stored for rows 10..12 of column C on the current sheet, cells whose
\* value is not a number being skipped, not coerced; SUM(C10:C12) is the sum
\* of those numbers (20 for C10 = 5, C11 = "abc", C12 = 15).
C12_RangeExpandsToNumbers ==
    (lastEval.n > 0 /\ lastEval.formula = <<Fn("SUM"), C10toC12, Op(")")>>)
    => /\ Len(lastEval.jsCode) = 3
       /\ lastEval.jsCode[1] = Call("SUM")
       /\ lastEval.jsCode[2].t = "arr"
       /\ SelectSeq(lastEval.jsCode[2].items, IsNotNull)
            = RangeNumbers(PriorCells, lastEval.sheet, "C", 10, 12)
       /\ lastEval.jsCode[3] = Op(")")
       /\ lastEval.result
            = SumFrom(N(0), RangeNumbers(PriorCells, lastEval.sheet, "C", 10, 12))

\* C12 witness: SUM(C10:C12) with C10 = 5, C11 = "abc", C12 = 15 gave 20.
C12_Witness ==
    /\ JustEvaluated
    /\ lastEval.formula = <<Fn("SUM"), C10toC12, Op(")")>>
    /\ getCellValue(PriorCells, lastEval.sheet, <<"C", 10>>) = N(5)
    /\ getCellValue(PriorCells, lastEval.sheet, <<"C", 11>>) = Str(<<Txt("abc")>>)
    /\ getCellValue(PriorCells, lastEval.sheet, <<"C", 12>>) = N(15)
    /\ lastEval.jsCode = <<Call("SUM"), ArrLit(<<N(5), N(15)>>), Op(")")>>
    /\ lastEval.result = N(20)

\* The rounding the specification describes: the nearest multiple of
\* 10^(-decimals), a tie going to the value farther from zero (the sign is
\* set aside, the magnitude rounded, the sign restored).
HalfAwayFromZero(number, decimals) ==
    LET magnitude == [number EXCEPT !.neg = FALSE]
        rounded == IF decimals.n = 0 THEN MathRound(magnitude)
                   ELSE RoundWithFactor(magnitude, decimals, N(Pow10(decimals.n)))
    IN  IF number.neg THEN Negate(rounded) ELSE rounded

RoundedNumber == getCellValue(PriorCells, lastEval.sheet, <<"C", 10>>)
RoundedDecimals == getCellValue(PriorCells, lastEval.sheet, <<"C", 11>>)

\* C13: ROUND(number, decimals) rounds half away from zero for positive and
\* negative numbers alike: whenever ROUND(C10, C11) has been evaluated
\* with numbers in C10 and C11, C11 a whole number, the result is the
\* multiple of 10^(-C11) nearest to C10, a tie going to the value farther
\* from zero (ROUND(-150, -2) = -200, ROUND(-5/2, 0) = -3).
C13_RoundHalfAwayFromZero ==
    (lastEval.n > 0 /\ lastEval.formula = RoundOfCells
        /\ RoundedNumber.k = "num" /\ RoundedDecimals.k = "num")
    => lastEval.result = HalfAwayFromZero(RoundedNumber, RoundedDecimals)

\* C15: the Cell Store is fresh for each calculation run: what execute
\* returns depends only on the document and on formData, not on an earlier
\* call on the same engine.  Of two calls on one engine with the same
\* formData (the document being the same), both return the same response.
C15_LaterRunAsFresh ==
    \A i, j \in 1..Len(returned) :
        returned[i].formData = returned[j].formData
        => returned[i].response = returned[j].response

\* C16: once its read has completed, a run is not interleaved with another
\* call on the same engine: while a call stands between the completion of
\* its read and its return (between two sheets, say), the other call has
\* not been made, awaits its own read, or has returned or rejected.
C16_RunIsUninterrupted ==
    pc \in {"loaded", "calc"} => parked.pc \in {"idle", "loading", "done", "rejected"}

\* The first call stands between two sheets, one formula result stored,
\* while the second call has been made and awaits its read.
C16_Witness ==
    /\ pc = "calc"
    /\ sheetIdx > 1
    /\ sheetIdx <= Len(sheetOrder)
    /\ lastEval.n > 0
    /\ parked.pc = "loading"
    /\ returned = <<>>

GenericSheets ==
    {excelData.sheets[i] : i \in {j \in 1..Len(excelData.sheets) :
        excelData.sheets[j].name \notin {"wc", "Assumptions.1"}}}

\* C17: the response is a projection of the final Cell Store: when execute
\* has returned, for every sheet reported in the generic shape and every
\* cell the sheet's formulas, values and rows report, the reported value is
\* the value getCellValue(sheet, cell) returns.
C17_ResponseProjectsStore ==
    pc = "done" =>
        \A sheetData \in GenericSheets :
            LET shape == response.data[sheetData.name]
                stored(cell) == getCellValue(calculatedCells, sheetData.name, cell)
            IN  /\ \A cell \in DOMAIN shape.formulas : shape.formulas[cell] = stored(cell)
                /\ \A cell \in DOMAIN shape.values : shape.values[cell] = stored(cell)
                /\ \A cell \in DOMAIN shape.rows : shape.rows[cell] = stored(cell)

\* The template mapping classifies the cell as a formula cell: a finance
\* cell typed 'formula', or a row listed in its section's formula_rows.
IsFormulaCell(mappings, templateId, cellRef) ==
    /\ HasMapping(mappings, templateId)
    /\ \/ /\ Lower(cellRef) \in DOMAIN getFinanceCells(mappings, templateId)
          /\ getFinanceCells(mappings, templateId)[Lower(cellRef)] = "formula"
       \/ /\ Lower(cellRef) \notin DOMAIN getFinanceCells(mappings, templateId)
          /\ SectionOf(cellRef[2]) # ""
          /\ cellRef[2] \in getFormulaRows(mappings, templateId, SectionOf(cellRef[2]))

\* C18: formula protection: when applyFormDataAndCalculate or
\* generateFullReport has called the script for a template id, every update
\* it handed over is one filterWritableCells keeps, and none targets a cell
\* the template mapping classifies as a formula cell.
C18_UpdatesPassTheFilter ==
    (service.pc # "idle" /\ service.invoked /\ service.templateId # NoTemplate)
    => \A i \in 1..Len(service.updates) :
        /\ filterWritableCells(service.mappings, service.templateId,
                               <<Entry(service.updates[i].cell, service.updates[i].value)>>)
             # <<>>
        /\ ~IsFormulaCell(service.mappings, service.templateId, service.updates[i].cell)

IsReportCall == service.pc # "idle" /\ service.method = "generateFullReport"

RejectedForKey ==
    /\ service.pc = "rejected"
    /\ service.error = ApiKeyRequired(service.aiProvider)
    /\ ~service.invoked
    /\ service.updates = <<>>

\* The environment variable generateFullReport reads for the provider.
ProviderVariable ==
    IF service.aiProvider = "grok"
    THEN service.env.GROK_API_KEY ELSE service.env.PERPLEXITY_API_KEY

C20_GuardEmptyBetweenFormulas ==
    /\ processing = {}
    /\ lastEval.n > 0 => lastEval.entered = {}

\* A formula has just failed in eval and the failure been caught.
C20_Witness ==
    /\ JustEvaluated
    /\ lastEval.caught
    /\ lastEval.entered = {}
    /\ lastEval.result = N(0)
    /\ processing = {}

\* The addresses written so far, and the sheets that wrote an address.
WrittenAddresses == {writes[i].cell : i \in 1..Len(writes)}
SheetsWriting(cell) ==
    {writes[i].sheet : i \in {j \in 1..Len(writes) : writes[j].cell = cell}}

\* The value of the last of the first n calls that wrote the address.
RECURSIVE LastValueFor(_, _, _)
LastValueFor(ws, cell, n) ==
    IF ws[n].cell = cell THEN ws[n].value ELSE LastValueFor(ws, cell, n - 1)

\* get returns the value for the address on each of the sheets.
ReadAs(cell, sheets, value) ==
    \A sheet \in sheets : getCellValue(calculatedCells, sheet, cell) = value

\* C21: the bare-address fallback is last-write-wins by address:
\* get(sheet, address), when no value was ever written under the qualified
\* key sheet!address, returns the value most recently written for that
\* address under any sheet.
C21_BareFallbackIsLastWrite ==
    \A cell \in WrittenAddresses :
        ReadAs(cell, SheetNames \ SheetsWriting(cell),
               LastValueFor(writes, cell, Len(writes)))

\* C21 witness: two sheets wrote different values to one address, and a
\* third sheet, which never wrote it, reads the later of the two.
C21_Witness ==
    \E i, j \in 1..Len(writes) :
        /\ i < j
        /\ writes[i].cell = writes[j].cell
        /\ writes[i].sheet # writes[j].sheet
        /\ writes[i].value # writes[j].value
        /\ \A k \in (j + 1)..Len(writes) : writes[k].cell # writes[j].cell
        /\ \E sheet \in SheetNames \ SheetsWriting(writes[j].cell) :
                getCellValue(calculatedCells, sheet, writes[j].cell) = writes[j].value

\* The value the input's sheet declares for the input's cell among its
\* static values, 0 when it declares none.
StaticOrZero(inputDef) ==
    IF /\ HasSheet(excelData, inputDef.sheet)
       /\ SheetNamed(excelData, inputDef.sheet).hasStatic
       /\ inputDef.cell \in StaticCells(SheetNamed(excelData, inputDef.sheet))
       /\ Defined(DeclaredValue(SheetNamed(excelData, inputDef.sheet), inputDef.cell))
    THEN DeclaredValue(SheetNamed(excelData, inputDef.sheet), inputDef.cell)
    ELSE N(0)

\* C22: for a declared input that has neither a caller-supplied value nor a
\* default, input normalization performs no write to the input's declared
\* cell: after setInputs the cell holds its declared static value if one
\* exists and otherwise reads as 0.
C22_NoValueNoWrite ==
    AfterSetInputs =>
        \A d \in 1..Len(excelData.inputs) :
            (~Defined(excelData.inputs[d].default) /\ NotSupplied(excelData.inputs[d].key))
            => /\ \A k \in 1..Len(writes) :
                    ~(writes[k].by = "input" /\ writes[k].key = excelData.inputs[d].key)
               /\ getCellValue(calculatedCells, excelData.inputs[d].sheet,
                               excelData.inputs[d].cell)
                    = StaticOrZero(excelData.inputs[d])

PercentLike == {"proposed_roi", "processing_fee", "conversion_charges"}
MultiplierLike == {"rent", "other_expenses"}

\* The legacy names of the key that the caller supplies.
SuppliedLegacyNames(key) ==
    {fieldNameMapping[i][1] : i \in
        {j \in 1..Len(fieldNameMapping) :
            /\ fieldNameMapping[j][2] = key
            /\ Defined(Lookup(InputDataOf(formData), fieldNameMapping[j][1]))}}

\* The values that arrived for the key: under a legacy name when one is
\* supplied, under the key itself otherwise.
Arrived(key) ==
    IF SuppliedLegacyNames(key) # {}
    THEN {InputDataOf(formData)[name] : name \in SuppliedLegacyNames(key)}
    ELSE IF key \in DOMAIN InputDataOf(formData) THEN {InputDataOf(formData)[key]}
    ELSE {}

\* v above the limit.
Exceeds(v, limit) ==
    (v.k = "num" /\ ~v.neg /\ v.n > limit * v.d) \/ (v.k = "inf" /\ ~v.neg)

\* C23: unit heuristics, applied after alias resolution and before the
\* generic input-to-cell mapping: a percentage-like input with value v > 1
\* reaches its cell as v/100 and with v <= 1 unchanged; a multiplier-like
\* input with v > 10 reaches its cell as 1 + v/100 and with v <= 10
\* unchanged; also for a value that arrived under a legacy alias.
C23_UnitHeuristics ==
    AfterSetInputs =>
        \A d \in 1..Len(excelData.inputs) :
            \A v \in {x \in Arrived(excelData.inputs[d].key) : x.k = "num"} :
                /\ excelData.inputs[d].key \in PercentLike =>
                        InputWritten(excelData.inputs[d],
                                     IF Exceeds(v, 1) THEN NumDiv(v, N(100)) ELSE v)
                /\ excelData.inputs[d].key \in MultiplierLike =>
                        InputWritten(excelData.inputs[d],
                                     IF Exceeds(v, 10) THEN NumAdd(N(1), NumDiv(v, N(100)))
                                     ELSE v)

\* C23 witness: 12 arrived under the legacy name of a percentage-like input
\* and reached the cell as 3/25, or 12 arrived under the legacy name of a
\* multiplier-like input and reached the cell as 28/25, while an input at its
\* limit reached its cell unchanged.
C23_Witness ==
    /\ AfterSetInputs
    /\ \E d, e \in 1..Len(excelData.inputs) :
        /\ excelData.inputs[d].key \in PercentLike \cup MultiplierLike
        /\ SuppliedLegacyNames(excelData.inputs[d].key) # {}
        /\ Arrived(excelData.inputs[d].key) = {N(12)}
        /\ InputWritten(excelData.inputs[d],
                        IF excelData.inputs[d].key \in PercentLike
                        THEN Num(FALSE, 3, 25) ELSE Num(FALSE, 28, 25))
        /\ Arrived(excelData.inputs[e].key)
                = {IF excelData.inputs[e].key \in PercentLike THEN N(1) ELSE N(10)}
        /\ InputWritten(excelData.inputs[e],
                        IF excelData.inputs[e].key \in PercentLike THEN N(1) ELSE N(10))

PinnedKeys == {"electricity", "rent", "marketing_expenses", "other_expenses"}

IsInputOrPin(w) == w.by \in {"input", "pin"}

\* The store as the input mapping loop and the corrections leave it.
CellsAfterPins == ApplyWrites(<<>>, SelectSeq(writes, IsInputOrPin))

\* C24: the compatibility-override writes of the pinned inputs (electricity
\* to Assumptions.1!I30, rent to I29, marketing_expenses to I31,
\* other_expenses to I35) happen after every generic input-to-cell write:
\* when a declared input maps to a pinned cell and the pinned input is
\* supplied, the pinned input's value is the one that remains from these two
\* writes.
C24_PinsAfterInputs ==
    AfterSetInputs =>
        \A p \in 1..Len(writes) :
            (writes[p].by = "pin" /\ writes[p].key \in PinnedKeys)
            => /\ \A q \in 1..Len(writes) : writes[q].by = "input" => q < p
               /\ writes[p].sheet = "Assumptions.1"
               /\ writes[p].value = NormalizedData(InputDataOf(formData))[writes[p].key]
               /\ getCellValue(CellsAfterPins, "Assumptions.1", writes[p].cell)
                    = writes[p].value

\* C24 witness: a declared input maps to I31, a value was supplied for it
\* and another for marketing_expenses, and I31 holds the latter.
C24_Witness ==
    /\ AfterSetInputs
    /\ \E q, p \in 1..Len(writes) :
        /\ writes[q].by = "input"
        /\ writes[p].by = "pin"
        /\ writes[p].key = "marketing_expenses"
        /\ writes[q].sheet = writes[p].sheet
        /\ writes[q].cell = writes[p].cell
        /\ writes[q].value # writes[p].value
        /\ getCellValue(CellsAfterPins, "Assumptions.1", <<"I", 31>>) = writes[p].value

\* The formula cells of a workbook in the order of the specification: sheet
\* by sheet along SheetOrder, and in declared order within a sheet.
DeclaredEvaluations(wb) ==
    Flatten([i \in 1..Len(sheetOrder) |->
                IF HasSheet(wb, sheetOrder[i]) /\ SheetNamed(wb, sheetOrder[i]).hasFormulas
                THEN [j \in 1..Len(SheetNamed(wb, sheetOrder[i]).formulas) |->
                        [sheet |-> sheetOrder[i],
                         cell |-> SheetNamed(wb, sheetOrder[i]).formulas[j].cell,
                         formula |-> SheetNamed(wb, sheetOrder[i]).formulas[j].formula]]
                ELSE <<>>])

IsFormulaWrite(w) == w.by = "formula"

\* The formula results stored so far, in the order they were stored.
StoredResults == SelectSeq(writes, IsFormulaWrite)

\* The results stored are those of the first formula cells of the order,
\* one each, the last of them that of the last evaluateFormula call; when
\* execute has returned, they are those of all of them.
InDeclaredOrder(stored, declared) ==
    /\ Len(stored) = lastEval.n
    /\ Len(stored) <= Len(declared)
    /\ \A k \in 1..Len(stored) :
            stored[k].sheet = declared[k].sheet /\ stored[k].cell = declared[k].cell
    /\ lastEval.n > 0 => lastEval.formula = declared[lastEval.n].formula
    /\ pc = "done" => Len(stored) = Len(declared)

\* C25: orchestration order: in one run sheets are processed strictly in
\* the fixed SheetOrder and, within a sheet, formulas strictly in declared
\* order; no formula of a later sheet is evaluated before the last formula
\* of an earlier sheet, each declared formula of a sheet in SheetOrder is
\* evaluated exactly once, and its result is written under both the
\* qualified and the bare key before the next formula is evaluated.
C25_OrchestrationOrder ==
    pc \in {"calc", "done"} =>
        /\ InDeclaredOrder(StoredResults, DeclaredEvaluations(excelData))
        /\ lastEval.n > 0 =>
                /\ lastEval.at = Len(writes) - 1
                /\ writes[Len(writes)] =
                        Write(lastEval.sheet, lastEval.cell, lastEval.result, "formula", "")
                /\ QualifiedKey(lastEval.sheet, lastEval.cell) \in DOMAIN calculatedCells
                /\ calculatedCells[QualifiedKey(lastEval.sheet, lastEval.cell)]
                        = lastEval.result
                /\ lastEval.cell \in DOMAIN calculatedCells
                /\ calculatedCells[lastEval.cell] = lastEval.result

\* C25 witness: a run has returned that evaluated two formulas of one sheet
\* and then a formula of a later sheet.
C25_Witness ==
    /\ pc = "done"
    /\ Len(StoredResults) = 3
    /\ StoredResults[1].sheet = "Depsch"
    /\ StoredResults[2].sheet = "Depsch"
    /\ StoredResults[3].sheet = "wc"
    /\ StoredResults[1].cell # StoredResults[2].cell

\* C26: in a run driven by calculateAll, evaluateFormula is only ever
\* entered with an empty set of in-flight keys (evaluation never re-enters
\* evaluateFormula for a referenced cell), so the circular-reference branch
\* that returns 0 is never taken, whatever cycles the formulas contain.
C26_GuardNeverTrips ==
    lastEval.n > 0 =>
        /\ lastEval.entered = {}
        /\ ~lastEval.circular

\* C26 witness: the second formula of the cycle A1 = B1+1, B1 = A1+1 has
\* been evaluated, with an empty set at entry, to a result other than 0.
C26_Witness ==
    /\ JustEvaluated
    /\ lastEval.n = 2
    /\ SheetNamed(excelData, lastEval.sheet).formulas = CycleFormulas
    /\ lastEval.cell = B1
    /\ lastEval.entered = {}
    /\ ~lastEval.circular
    /\ lastEval.result # N(0)

\* What the last evaluateFormula call met in A1 and B1 of its sheet.
ValueOfA1 == getCellValue(PriorCells, lastEval.sheet, A1)
ValueOfB1 == getCellValue(PriorCells, lastEval.sheet, B1)

\* C27: substituting numeric cell values preserves arithmetic meaning: for
\* the formula A1-B1 (or -A1) over cells holding numbers x and y,
\* evaluateFormula returns x - y (or -x) for all numeric values, negative
\* ones included.
C27_SubstitutionKeepsArithmetic ==
    (lastEval.n > 0 /\ ValueOfA1.k = "num" /\ ValueOfB1.k = "num") =>
        /\ lastEval.formula = AMinusB => lastEval.result = NumSub(ValueOfA1, ValueOfB1)
        /\ lastEval.formula = MinusA => lastEval.result = Negate(ValueOfA1)

\* What the store held for the cell that the last formula, a single
\* sheet-qualified reference, names.
ReferencedValue == getCellValue(PriorCells, ReadSheet, ReadCell)

\* C28: a value substituted for a reference is never itself re-scanned as
\* formula text: a formula consisting only of a sheet-qualified reference
\* S!A evaluates to exactly get(S, A) for every stored number and every
\* stored string, strings that look like a cell address ("FY2025")
\* included.
C28_SubstitutedValueNotRescanned ==
    (ReadsQualified /\ (ReferencedValue.k = "num" \/ TypeofString(ReferencedValue)))
    => lastEval.result = ReferencedValue

HeuristicKeys == PercentLike \cup MultiplierLike \cup {"growth_rate"}
PinnedCells == {<<"I", 28>>, <<"I", 29>>, <<"I", 30>>, <<"I", 31>>, <<"I", 35>>}

\* The caller supplies a value under the input's own key and none under a
\* legacy name of it; no unit heuristic applies to the input; its cell is
\* not a pinned cell and no other input is declared on it.
PlainlySupplied(d) ==
    /\ Defined(Lookup(InputDataOf(formData), excelData.inputs[d].key))
    /\ SuppliedLegacyNames(excelData.inputs[d].key) = {}
    /\ excelData.inputs[d].key \notin HeuristicKeys
    /\ ~(excelData.inputs[d].sheet = "Assumptions.1"
            /\ excelData.inputs[d].cell \in PinnedCells)
    /\ \A e \in 1..Len(excelData.inputs) :
            (excelData.inputs[e].sheet = excelData.inputs[d].sheet
                /\ excelData.inputs[e].cell = excelData.inputs[d].cell) => e = d

\* C29: a caller-supplied input takes precedence over workbook data: for
\* every declared input whose key the caller supplies (no alias, no unit
\* heuristic, not a pinned cell), get(input.sheet, input.cell) returns the
\* supplied value when setInputs has finished, even if the same cell is also
\* declared as a static value of that sheet.
C29_SuppliedInputWins ==
    AfterSetInputs =>
        \A d \in 1..Len(excelData.inputs) :
            PlainlySupplied(d)
            => getCellValue(calculatedCells, excelData.inputs[d].sheet,
                            excelData.inputs[d].cell)
                    = InputDataOf(formData)[excelData.inputs[d].key]

\* The formula results stored for the cell of the sheet.
ResultsFor(name, cell) ==
    {i \in 1..Len(writes) :
        writes[i].by = "formula" /\ writes[i].sheet = name /\ writes[i].cell = cell}

\* The formula cell has been evaluated, its qualified key is in the store,
\* and (for a sheet reported in the generic shape) the reported result is
\* the last result stored for it.
EvaluatedAndReported(sheetData, cell) ==
    /\ ResultsFor(sheetData.name, cell) # {}
    /\ QualifiedKey(sheetData.name, cell) \in DOMAIN calculatedCells
    /\ \A i \in ResultsFor(sheetData.name, cell) :
            (sheetData.name \notin {"wc", "Assumptions.1"}
                /\ \A j \in ResultsFor(sheetData.name, cell) : j <= i)
            => response.data[sheetData.name].formulas[cell] = writes[i].value

\* C30: after calculateAll, every formula cell of every sheet of the
\* workbook model has been evaluated and has a qualified Cell Store entry,
\* so every formulas[c].result in the output is the result of evaluating
\* that formula; also for sheets whose name is not in the hard-coded sheet
\* order.
C30_EveryFormulaEvaluated ==
    pc = "done" =>
        \A s \in 1..Len(excelData.sheets) :
            \A cell \in FormulaCells(excelData.sheets[s]) :
                EvaluatedAndReported(excelData.sheets[s], cell)

====
